---- MODULE Spec2Model ----
(***************************************************************************)
(* State-machine model of the CFI supervisor (agentic-ais/cfi/src/cfi_ai): *)
(* the flight-phase tracker, the hazard monitor, the speech sink and the   *)
(* runtime tick loop that composes them.                                   *)
(*                                                                         *)
(* Units.  Time is in whole seconds.  groundspeed_m_s is carried in tenths *)
(* of a metre per second, throttle and parking brake in hundredths, all    *)
(* other telemetry in the unit of the source.  The float products of the   *)
(* source (m/s -> kt with 1.94384, m -> ft with 3.28084) are computed in   *)
(* scaled integers, so every comparison is exact.  An optional field is    *)
(* the empty tuple when absent and a one-element tuple when present.       *)
(***************************************************************************)
EXTENDS Integers, Sequences, FiniteSets, TLC

VARIABLES
    now,        \* wall clock, time.time()
    tracker,    \* FlightPhaseTracker._s
    trk,        \* observation of the tracker's last update (inputs, result)
    sink,       \* McpSpeechSink timestamps
    calls,      \* observation of the speech sink's last two speak_urgent calls
    rt,         \* CfiRuntime fields and the position of run()
    hazard,     \* HazardMonitor state
    latest,     \* XPlaneUdpClient._latest
    journal,    \* runtime event journal: the events written by the last step
    speech,     \* the speech sink calls made by the last step
    obs         \* observation of the journal per flight cycle

vars == <<now, tracker, trk, sink, calls, rt, hazard, latest, journal, speech, obs>>
runtime_vars == <<rt, hazard, latest, journal, speech, obs>>

----------------------------------------------------------------------------
(* Optional values                                                         *)

None == <<>>
Some(v) == <<v>>
Or0(x) == IF x = None THEN 0 ELSE x[1]
OrFalse(x) == IF x = None THEN FALSE ELSE x[1]
Abs(x) == IF x < 0 THEN 0 - x ELSE x
Min2(a, b) == IF a < b THEN a ELSE b
Max2(a, b) == IF a > b THEN a ELSE b

----------------------------------------------------------------------------
(* Flight phases and snapshots                                             *)

Phases == {"preflight", "taxi_out", "takeoff", "initial_climb", "cruise",
           "descent", "approach", "landing", "taxi_in"}

\* The wall clock starts well after the epoch: a timestamp of 0.0 in the
\* source means "never", and time.time() is far larger than any horizon.
StartEpoch == 100

\* Telemetry scenarios.  Each is one FlightSnapshot without its timestamp.
SnapshotOf(kind) ==
    CASE kind = "parked" ->   \* engine off, brake set
           [on_ground |-> TRUE, elevation_m |-> Some(100), groundspeed |-> Some(0),
            ias |-> Some(0), vs |-> Some(0), roll |-> Some(0), throttle |-> Some(5),
            parking_brake |-> Some(100), engine_running |-> Some(FALSE),
            engine_rpm |-> Some(0), stall_warning |-> FALSE]
      [] kind = "idle" ->     \* engine running, brake set, not moving
           [on_ground |-> TRUE, elevation_m |-> Some(100), groundspeed |-> Some(0),
            ias |-> Some(0), vs |-> Some(0), roll |-> Some(0), throttle |-> Some(5),
            parking_brake |-> Some(100), engine_running |-> Some(TRUE),
            engine_rpm |-> Some(900), stall_warning |-> FALSE]
      [] kind = "taxi" ->     \* 4.5 m/s, brake released
           [on_ground |-> TRUE, elevation_m |-> Some(100), groundspeed |-> Some(45),
            ias |-> Some(9), vs |-> Some(0), roll |-> Some(0), throttle |-> Some(35),
            parking_brake |-> Some(0), engine_running |-> Some(TRUE),
            engine_rpm |-> Some(1000), stall_warning |-> FALSE]
      [] kind = "fast_taxi" -> \* 17 m/s = 33 kt at low power
           [on_ground |-> TRUE, elevation_m |-> Some(100), groundspeed |-> Some(170),
            ias |-> Some(30), vs |-> Some(0), roll |-> Some(0), throttle |-> Some(30),
            parking_brake |-> Some(0), engine_running |-> Some(TRUE),
            engine_rpm |-> Some(1500), stall_warning |-> FALSE]
      [] kind = "coast" ->    \* 17 m/s = 33 kt on the ground, engine stopped
           [on_ground |-> TRUE, elevation_m |-> Some(100), groundspeed |-> Some(170),
            ias |-> Some(30), vs |-> Some(0), roll |-> Some(0), throttle |-> Some(0),
            parking_brake |-> Some(0), engine_running |-> Some(FALSE),
            engine_rpm |-> Some(0), stall_warning |-> FALSE]
      [] kind = "roll" ->     \* 25 m/s = 48.6 kt on the runway, full power
           [on_ground |-> TRUE, elevation_m |-> Some(100), groundspeed |-> Some(250),
            ias |-> Some(50), vs |-> Some(0), roll |-> Some(0), throttle |-> Some(90),
            parking_brake |-> Some(0), engine_running |-> Some(TRUE),
            engine_rpm |-> Some(2400), stall_warning |-> FALSE]
      [] kind = "climb" ->
           [on_ground |-> FALSE, elevation_m |-> Some(250), groundspeed |-> Some(350),
            ias |-> Some(80), vs |-> Some(700), roll |-> Some(0), throttle |-> Some(100),
            parking_brake |-> Some(0), engine_running |-> Some(TRUE),
            engine_rpm |-> Some(2500), stall_warning |-> FALSE]
      [] kind = "stall" ->    \* scenario S1: low speed airborne
           [on_ground |-> FALSE, elevation_m |-> Some(500), groundspeed |-> Some(250),
            ias |-> Some(45), vs |-> Some(0 - 200), roll |-> Some(0), throttle |-> Some(40),
            parking_brake |-> Some(0), engine_running |-> Some(TRUE),
            engine_rpm |-> Some(2000), stall_warning |-> FALSE]
      [] kind = "cruise" ->
           [on_ground |-> FALSE, elevation_m |-> Some(1250), groundspeed |-> Some(600),
            ias |-> Some(100), vs |-> Some(0), roll |-> Some(0), throttle |-> Some(60),
            parking_brake |-> Some(0), engine_running |-> Some(TRUE),
            engine_rpm |-> Some(2300), stall_warning |-> FALSE]
      [] kind = "descent" ->
           [on_ground |-> FALSE, elevation_m |-> Some(1250), groundspeed |-> Some(550),
            ias |-> Some(95), vs |-> Some(0 - 600), roll |-> Some(0), throttle |-> Some(30),
            parking_brake |-> Some(0), engine_running |-> Some(TRUE),
            engine_rpm |-> Some(1800), stall_warning |-> FALSE]
      [] kind = "approach" ->
           [on_ground |-> FALSE, elevation_m |-> Some(400), groundspeed |-> Some(400),
            ias |-> Some(75), vs |-> Some(0 - 500), roll |-> Some(0), throttle |-> Some(30),
            parking_brake |-> Some(0), engine_running |-> Some(TRUE),
            engine_rpm |-> Some(1800), stall_warning |-> FALSE]
      [] kind = "flare" ->    \* 20 m above the field, sinking
           [on_ground |-> FALSE, elevation_m |-> Some(120), groundspeed |-> Some(300),
            ias |-> Some(60), vs |-> Some(0 - 200), roll |-> Some(0), throttle |-> Some(10),
            parking_brake |-> Some(0), engine_running |-> Some(TRUE),
            engine_rpm |-> Some(1200), stall_warning |-> FALSE]
      [] kind = "bare_ground" -> \* only the required fields
           [on_ground |-> TRUE, elevation_m |-> None, groundspeed |-> None,
            ias |-> None, vs |-> None, roll |-> None, throttle |-> None,
            parking_brake |-> None, engine_running |-> None,
            engine_rpm |-> None, stall_warning |-> FALSE]
      [] kind = "rollout" ->  \* after landing, 30.9 m/s = 60 kt, power off
           [on_ground |-> TRUE, elevation_m |-> Some(100), groundspeed |-> Some(309),
            ias |-> Some(55), vs |-> Some(0), roll |-> Some(0), throttle |-> Some(10),
            parking_brake |-> Some(0), engine_running |-> Some(TRUE),
            engine_rpm |-> Some(1000), stall_warning |-> FALSE]
      [] kind = "rollout_edge" -> \* 10 m/s = 19.4 kt with IAS exactly 30
           [on_ground |-> TRUE, elevation_m |-> Some(100), groundspeed |-> Some(100),
            ias |-> Some(30), vs |-> Some(0), roll |-> Some(0), throttle |-> Some(10),
            parking_brake |-> Some(0), engine_running |-> Some(TRUE),
            engine_rpm |-> Some(1000), stall_warning |-> FALSE]
      [] kind = "ground_stall_warn" -> \* stall warning sounding on the ground
           [on_ground |-> TRUE, elevation_m |-> Some(100), groundspeed |-> Some(0),
            ias |-> Some(0), vs |-> Some(0 - 2000), roll |-> Some(60),
            throttle |-> Some(5), parking_brake |-> Some(100),
            engine_running |-> Some(TRUE), engine_rpm |-> Some(900),
            stall_warning |-> TRUE]
      [] kind = "no_ias" ->   \* airborne, airspeed not received yet
           [on_ground |-> FALSE, elevation_m |-> Some(500), groundspeed |-> Some(400),
            ias |-> None, vs |-> Some(0), roll |-> Some(0), throttle |-> Some(60),
            parking_brake |-> Some(0), engine_running |-> Some(TRUE),
            engine_rpm |-> Some(2300), stall_warning |-> FALSE]
      [] kind = "blind_low" -> \* 50 m above the field, no vertical speed or roll
           [on_ground |-> FALSE, elevation_m |-> Some(150), groundspeed |-> Some(400),
            ias |-> Some(110), vs |-> None, roll |-> None, throttle |-> Some(60),
            parking_brake |-> Some(0), engine_running |-> Some(TRUE),
            engine_rpm |-> Some(2300), stall_warning |-> FALSE]
      [] kind = "dive" ->     \* 50 m above the field, 1600 fpm down, 50 deg bank
           [on_ground |-> FALSE, elevation_m |-> Some(150), groundspeed |-> Some(500),
            ias |-> Some(100), vs |-> Some(0 - 1600), roll |-> Some(0 - 50),
            throttle |-> Some(20), parking_brake |-> Some(0),
            engine_running |-> Some(TRUE), engine_rpm |-> Some(1500),
            stall_warning |-> FALSE]
      [] OTHER ->             \* "bare_air": FlightSnapshot(timestamp_sec) defaults
           [on_ground |-> FALSE, elevation_m |-> None, groundspeed |-> None,
            ias |-> None, vs |-> None, roll |-> None, throttle |-> None,
            parking_brake |-> None, engine_running |-> None,
            engine_rpm |-> None, stall_warning |-> FALSE]

AllKinds == {"parked", "idle", "taxi", "fast_taxi", "roll", "climb", "stall", "cruise",
             "descent", "approach", "flare", "bare_ground", "bare_air"}

Stamp(kind, ts) == [kind |-> kind, timestamp_sec |-> ts, f |-> SnapshotOf(kind)]

\* gs_kt = groundspeed_m_s * 1.94384, as gs_kt * 10^6 (groundspeed in tenths).
GsKtE6(snap) == Or0(snap.f.groundspeed) * 194384
KtE6(k) == k * 1000000

\* FlightSnapshot.agl_ft, as feet * 10^5; None when either elevation is unknown.
agl_ft(snap, field_elevation_m) ==
    IF snap.f.elevation_m = None \/ field_elevation_m = None
    THEN None
    ELSE Some((snap.f.elevation_m[1] - field_elevation_m[1]) * 328084)
FtE5(x) == x * 100000

----------------------------------------------------------------------------
(* FlightPhaseTracker                                                      *)

DEFAULT_MIN_DWELL_SEC(phase) ==
    CASE phase = "preflight" -> 3
      [] phase = "taxi_out" -> 3
      [] phase = "takeoff" -> 2
      [] phase = "initial_climb" -> 3
      [] phase = "cruise" -> 5
      [] phase = "descent" -> 4
      [] phase = "approach" -> 3
      [] phase = "landing" -> 1
      [] phase = "taxi_in" -> 3
      [] OTHER -> 3

TrackerState0 ==
    [phase |-> "preflight", phase_started_at |-> 0, candidate |-> "preflight",
     candidate_since |-> 0, field_elevation_m |-> None, was_airborne |-> FALSE]

determine_candidate(s, snap) ==
    LET ias == Or0(snap.f.ias)
        gs == GsKtE6(snap)
        vs == Or0(snap.f.vs)
        throttle == Or0(snap.f.throttle)
        park == Or0(snap.f.parking_brake)
        agl == agl_ft(snap, s.field_elevation_m)
    IN  IF snap.f.on_ground
        THEN IF s.was_airborne
             THEN IF gs > KtE6(40) \/ ias > 45 THEN "landing" ELSE "taxi_in"
             ELSE IF gs < KtE6(2) /\ ias < 5 /\ throttle < 20 /\ park > 30
                  THEN "preflight"
                  ELSE IF gs >= KtE6(35) /\ ias >= 40 THEN "takeoff" ELSE "taxi_out"
        ELSE IF agl = None
             THEN IF vs > 300 THEN "initial_climb"
                  ELSE IF vs < 0 - 300 THEN "descent" ELSE "cruise"
             ELSE IF agl[1] < FtE5(250) /\ vs < 0 - 150 /\ ias > 55 THEN "landing"
                  ELSE IF agl[1] <= FtE5(2500) /\ vs < 0 - 400 THEN "approach"
                  ELSE IF vs > 300 /\ agl[1] < FtE5(3000) THEN "initial_climb"
                  ELSE IF vs < 0 - 300 /\ agl[1] > FtE5(2500) THEN "descent"
                  ELSE IF Abs(vs) < 400 /\ agl[1] >= FtE5(3000) THEN "cruise"
                  ELSE IF s.phase \in {"takeoff", "initial_climb"} THEN "initial_climb"
                  ELSE IF s.phase \in {"approach", "landing"} THEN "approach"
                  ELSE "cruise"

\* The confirmation test of update(): candidate differs and its dwell is served.
DwellServedNoCheck(candidate, phase, dwell) == candidate # phase
DwellServed(candidate, phase, dwell) ==
    candidate # phase /\ dwell >= DEFAULT_MIN_DWELL_SEC(candidate)

\* The was_airborne latch of update(): set off the ground at IAS >= 60.
LatchAirborneUnlatched(was_airborne, snap) ==
    ~snap.f.on_ground /\ Or0(snap.f.ias) >= 60
LatchAirborne(was_airborne, snap) ==
    IF ~snap.f.on_ground /\ Or0(snap.f.ias) >= 60 THEN TRUE ELSE was_airborne

\* previous_phase of the PhaseState returned: previous if changed else None.
previous_phase_always(changed, previous) == Some(previous)
previous_phase_of(changed, previous) == IF changed THEN Some(previous) ELSE None

\* FlightPhaseTracker.update: the next tracker state and the PhaseState returned.
tracker_update(s, snap) ==
    LET ts == snap.timestamp_sec
        s1 == IF s.phase_started_at <= 0
              THEN [s EXCEPT !.phase_started_at = ts, !.candidate_since = ts]
              ELSE s
        s2 == IF snap.f.on_ground /\ snap.f.elevation_m # None /\ GsKtE6(snap) < KtE6(25)
              THEN [s1 EXCEPT !.field_elevation_m = snap.f.elevation_m]
              ELSE s1
        s3 == [s2 EXCEPT !.was_airborne = LatchAirborne(@, snap)]
        candidate == determine_candidate(s3, snap)
        s4 == IF candidate # s3.candidate
              THEN [s3 EXCEPT !.candidate = candidate, !.candidate_since = ts]
              ELSE s3
        dwell_required == DEFAULT_MIN_DWELL_SEC(candidate)
        dwell == Max2(0, ts - s4.candidate_since)
        changed == DwellServed(candidate, s4.phase, dwell)
        previous == s4.phase
        s5 == IF changed
              THEN [s4 EXCEPT !.phase = candidate, !.phase_started_at = ts]
              ELSE s4
        confidence == IF candidate = s5.phase THEN 100
                      ELSE Min2(99, (dwell * 100) \div dwell_required)
    IN  [s |-> s5,
         candidate |-> candidate,
         ps |-> [phase |-> s5.phase, confidence |-> confidence, changed |-> changed,
                 previous_phase |-> previous_phase_of(changed, previous),
                 changed_at_epoch |-> IF changed THEN Some(ts) ELSE None]]

----------------------------------------------------------------------------
(* McpSpeechSink                                                           *)

\* Configuration of the run (CfiConfig), in seconds.
urgent_cooldown_sec == 2
nonurgent_cooldown_sec == 3
nonurgent_suppress_after_urgent_sec == 2

EmptyDict == [k \in {} |-> 0]
DictGet(d, k, default) == IF k \in DOMAIN d THEN d[k] ELSE default
DictPut(d, k, v) == [x \in DOMAIN d \cup {k} |-> IF x = k THEN v ELSE d[x]]

\* Outcomes of the downstream speak(text) request.
SpeakOutcomes == {"success", "failure", "error"}

\* The timestamps McpSpeechSink keeps after a speak_urgent that went through.
RecordUrgentAlways(s, key, t, ok) ==
    [s EXCEPT !.last_urgent_by_key = DictPut(s.last_urgent_by_key, key, t),
              !.last_urgent_epoch = t]
RecordUrgentNever(s, key, t, ok) == s
RecordUrgent(s, key, t, ok) ==
    IF ok
    THEN [s EXCEPT !.last_urgent_by_key = DictPut(s.last_urgent_by_key, key, t),
                   !.last_urgent_epoch = t]
    ELSE s

\* McpSpeechSink.speak_urgent at time t, the downstream request ending in
\* outcome.  result: gated | dry_run | success | failure | error (raised).
speak_urgent(s, key, t, outcome) ==
    LET last == DictGet(s.last_urgent_by_key, key, 0)
    IN  IF t - last < urgent_cooldown_sec
        THEN [s |-> s, ok |-> FALSE, downstream |-> 0, raised |-> FALSE, result |-> "gated"]
        ELSE IF s.dry_run
        THEN [s |-> RecordUrgent(s, key, t, TRUE), ok |-> TRUE, downstream |-> 0,
              raised |-> FALSE, result |-> "dry_run"]
        ELSE IF outcome = "error"
        THEN [s |-> s, ok |-> FALSE, downstream |-> 1, raised |-> TRUE, result |-> "error"]
        ELSE [s |-> RecordUrgent(s, key, t, outcome = "success"),
              ok |-> outcome = "success", downstream |-> 1, raised |-> FALSE,
              result |-> outcome]

\* McpSpeechSink.speak_nonurgent.
speak_nonurgent(s, t, outcome) ==
    IF t - s.last_nonurgent_epoch < nonurgent_cooldown_sec
    THEN [s |-> s, ok |-> FALSE, downstream |-> 0, raised |-> FALSE, result |-> "gated"]
    ELSE IF s.dry_run
    THEN [s |-> [s EXCEPT !.last_nonurgent_epoch = t], ok |-> TRUE, downstream |-> 0,
          raised |-> FALSE, result |-> "dry_run"]
    ELSE IF outcome = "error"
    THEN [s |-> s, ok |-> FALSE, downstream |-> 1, raised |-> TRUE, result |-> "error"]
    ELSE [s |-> IF outcome = "success" THEN [s EXCEPT !.last_nonurgent_epoch = t] ELSE s,
          ok |-> outcome = "success", downstream |-> 1, raised |-> FALSE,
          result |-> outcome]

\* McpSpeechSink.recent_urgent.
recent_urgent_strict(s, t, within_sec) == (t - s.last_urgent_epoch) < Max2(0, within_sec)
recent_urgent(s, t, within_sec) == (t - s.last_urgent_epoch) <= Max2(0, within_sec)

Sink0(dry) ==
    [dry_run |-> dry, last_urgent_by_key |-> EmptyDict,
     last_nonurgent_epoch |-> 0, last_urgent_epoch |-> 0]

----------------------------------------------------------------------------
(* HazardMonitor.  The monitor owns its HazardProfile (enabled rules,       *)
(* thresholds, speech variants), the field elevation it learned, the       *)
(* after-landing rollout latch and the last variant index spoken per rule. *)
(* Thresholds are in the profile's units: knots, feet, feet per minute,    *)
(* degrees, and hundredths for the throttle ratio.                         *)

DefaultRules ==
    {"stall_or_low_speed", "excessive_sink_low_alt", "high_bank_low_alt",
     "pull_up_now", "excessive_taxi_speed", "unstable_approach_fast_or_sink"}

\* HazardProfile.thresholds, default_factory.
DefaultThresholds ==
    [low_airspeed_kt |-> 50, low_airspeed_min_agl_ft |-> 100,
     excessive_sink_fpm |-> 0 - 1500, excessive_sink_max_agl_ft |-> 1000,
     high_bank_deg |-> 45, high_bank_max_agl_ft |-> 1000,
     pull_up_fpm |-> 0 - 1000, pull_up_max_agl_ft |-> 300,
     max_taxi_speed_kt |-> 30, max_taxi_ias_kt |-> 35,
     unstable_approach_max_ias_kt |-> 95,
     unstable_approach_min_sink_fpm |-> 0 - 1000,
     unstable_approach_max_agl_ft |-> 1000,
     taxi_takeoff_roll_throttle_ratio |-> 65,
     taxi_takeoff_roll_ias_kt |-> 35, taxi_takeoff_roll_gs_kt |-> 30,
     taxi_in_rollout_clear_gs_kt |-> 25, taxi_in_rollout_clear_ias_kt |-> 30]

\* HazardProfile.speech_variants, default_factory: three distinct sentences
\* per rule, each already ending in a full stop.
DefaultVariants == [r \in DefaultRules |-> <<"one.", "two.", "three.">>]

DefaultProfile ==
    [enabled_rules |-> DefaultRules, thresholds |-> DefaultThresholds,
     speech_variants |-> DefaultVariants]

Hazard0 ==
    [field_elevation_m |-> None, taxi_in_rollout_cleared |-> FALSE,
     enabled_rules |-> DefaultRules, thresholds |-> DefaultThresholds,
     speech_variants |-> DefaultVariants, last_variant_idx |-> EmptyDict]

threshold_literal(h, name, fallback) == fallback

\* _threshold(name, fallback): the profile's value, the literal when missing.
threshold(h, name, fallback) == DictGet(h.thresholds, name, fallback)

\* _normalize_phrase on the phrases of the model: blank text gives "", a
\* phrase without closing punctuation gets a full stop.
normalize_phrase(text) ==
    IF text \in {"", " "} THEN ""
    ELSE IF text \in {"hold", "slow"} THEN text \o "."
    ELSE text

\* The normalized, non-empty phrases of a list, in order.
cleaned_phrases(lines) ==
    SelectSeq([i \in DOMAIN lines |-> normalize_phrase(lines[i])],
              LAMBDA x : x # "")

\* _speak_for(alert_id, fallback) when rng.randrange(len(variants)) returns
\* draw % len(variants): the text and the monitor it leaves.
speak_for(h, alert_id, draw) ==
    LET variants == cleaned_phrases(DictGet(h.speech_variants, alert_id, << >>))
        n == Len(variants)
        prev == DictGet(h.last_variant_idx, alert_id, 0 - 1)
        idx0 == draw % n
        idx == IF prev # 0 - 1 /\ idx0 = prev THEN (idx0 + 1) % n ELSE idx0
    IN  IF n = 0 THEN [h |-> h, text |-> "fallback."]
        ELSE IF n = 1
        THEN [h |-> [h EXCEPT !.last_variant_idx = DictPut(@, alert_id, 0)],
              text |-> variants[1]]
        ELSE [h |-> [h EXCEPT !.last_variant_idx = DictPut(@, alert_id, idx)],
              text |-> variants[idx + 1]]

update_speech_variants_replacing(h, update) ==
    [h EXCEPT !.speech_variants = [r \in DOMAIN update |-> cleaned_phrases(update[r])],
              !.last_variant_idx = EmptyDict]

\* update_speech_variants(speech_variants): update is a dict rule -> lines.
update_speech_variants(h, update) ==
    IF DOMAIN update = {} THEN h
    ELSE LET applies(r) == r \in DOMAIN update /\ cleaned_phrases(update[r]) # << >>
             keys == DOMAIN h.speech_variants \cup {r \in DOMAIN update : applies(r)}
         IN  [h EXCEPT
                !.speech_variants =
                    [r \in keys |->
                        IF applies(r)
                        THEN SubSeq(cleaned_phrases(update[r]), 1,
                                    Min2(6, Len(cleaned_phrases(update[r]))))
                        ELSE h.speech_variants[r]],
                !.last_variant_idx = EmptyDict]

\* _merge_speech_variants(current, updates)
merge_speech_variants(current, updates) ==
    [r \in DOMAIN current \cup DOMAIN updates |->
        IF r \in DOMAIN updates THEN updates[r] ELSE current[r]]

\* set_hazard_profile(hazard_profile), hazard_profile not None.
set_hazard_profile(h, profile) ==
    [h EXCEPT !.enabled_rules = profile.enabled_rules,
              !.thresholds = profile.thresholds,
              !.speech_variants = profile.speech_variants,
              !.last_variant_idx = EmptyDict,
              !.taxi_in_rollout_cleared = FALSE]

is_takeoff_ground_roll(h, snap) ==
    /\ Or0(snap.f.throttle) >= threshold(h, "taxi_takeoff_roll_throttle_ratio", 65)
    /\ \/ Or0(snap.f.ias) >= threshold(h, "taxi_takeoff_roll_ias_kt", 35)
       \/ GsKtE6(snap) >= KtE6(threshold(h, "taxi_takeoff_roll_gs_kt", 30))

\* _should_monitor_taxi_speed: the answer and the rollout latch it leaves.
should_monitor_taxi_speed(h, snap, phase) ==
    IF phase \notin {"taxi_out", "taxi_in"}
    THEN [monitor |-> FALSE, cleared |-> h.taxi_in_rollout_cleared]
    ELSE IF phase = "taxi_out" /\ is_takeoff_ground_roll(h, snap)
    THEN [monitor |-> FALSE, cleared |-> h.taxi_in_rollout_cleared]
    ELSE IF phase = "taxi_in" /\ ~h.taxi_in_rollout_cleared
    THEN IF /\ GsKtE6(snap) <= KtE6(threshold(h, "taxi_in_rollout_clear_gs_kt", 25))
            /\ Or0(snap.f.ias) <= threshold(h, "taxi_in_rollout_clear_ias_kt", 30)
         THEN [monitor |-> TRUE, cleared |-> TRUE]
         ELSE [monitor |-> FALSE, cleared |-> FALSE]
    ELSE [monitor |-> TRUE, cleared |-> h.taxi_in_rollout_cleared]

\* evaluate returns from its on-ground branch, before the airborne rules.
GroundBranchNever(snap) == FALSE
GroundBranch(snap) == snap.f.on_ground

\* HazardMonitor.evaluate without the speak_text of its alerts: the
\* monitor's next state and the alert ids, in rule-declaration order.
evaluate(h, snap, phase_state) ==
    LET gs == GsKtE6(snap)
        h1 == IF ~snap.f.on_ground
              THEN [h EXCEPT !.taxi_in_rollout_cleared = FALSE] ELSE h
        h2 == IF snap.f.on_ground /\ snap.f.elevation_m # None /\ gs < KtE6(25)
              THEN [h1 EXCEPT !.field_elevation_m = snap.f.elevation_m] ELSE h1
        ias == Or0(snap.f.ias)
        vs == Or0(snap.f.vs)
        bank_abs == Abs(Or0(snap.f.roll))
        agl == agl_ft(snap, h2.field_elevation_m)
        on(rule) == rule \in h2.enabled_rules
        stall == IF on("stall_or_low_speed")
                    /\ (snap.f.stall_warning
                        \/ (ias < threshold(h2, "low_airspeed_kt", 50)
                            /\ (agl = None
                                \/ agl[1] > FtE5(threshold(h2, "low_airspeed_min_agl_ft", 100)))))
                 THEN <<"stall_or_low_speed">> ELSE << >>
        sink_rate == IF on("excessive_sink_low_alt") /\ agl # None
                        /\ agl[1] < FtE5(threshold(h2, "excessive_sink_max_agl_ft", 1000))
                        /\ vs < threshold(h2, "excessive_sink_fpm", 0 - 1500)
                     THEN <<"excessive_sink_low_alt">> ELSE << >>
        bank == IF on("high_bank_low_alt") /\ agl # None
                   /\ agl[1] < FtE5(threshold(h2, "high_bank_max_agl_ft", 1000))
                   /\ bank_abs > threshold(h2, "high_bank_deg", 45)
                THEN <<"high_bank_low_alt">> ELSE << >>
        pull_up == IF on("pull_up_now") /\ agl # None
                      /\ agl[1] < FtE5(threshold(h2, "pull_up_max_agl_ft", 300))
                      /\ vs < threshold(h2, "pull_up_fpm", 0 - 1000)
                   THEN <<"pull_up_now">> ELSE << >>
        unstable == IF on("unstable_approach_fast_or_sink")
                       /\ phase_state.phase \in {"approach", "landing"}
                       /\ agl # None
                       /\ agl[1] < FtE5(threshold(h2, "unstable_approach_max_agl_ft", 1000))
                       /\ (ias > threshold(h2, "unstable_approach_max_ias_kt", 95)
                           \/ vs < threshold(h2, "unstable_approach_min_sink_fpm", 0 - 1000))
                    THEN <<"unstable_approach_fast_or_sink">> ELSE << >>
    IN  IF GroundBranch(snap)
        THEN IF on("excessive_taxi_speed")
             THEN LET m == should_monitor_taxi_speed(h2, snap, phase_state.phase)
                      h3 == [h2 EXCEPT !.taxi_in_rollout_cleared = m.cleared]
                  IN  [h |-> h3,
                       alerts |-> IF m.monitor
                                     /\ (gs > KtE6(threshold(h3, "max_taxi_speed_kt", 30))
                                         \/ ias > threshold(h3, "max_taxi_ias_kt", 35))
                                  THEN <<"excessive_taxi_speed">> ELSE << >>]
             ELSE [h |-> h2, alerts |-> << >>]
        ELSE [h |-> h2, alerts |-> stall \o sink_rate \o bank \o pull_up \o unstable]

\* HazardMonitor.evaluate: evaluate, then _speak_for for every alert, in
\* order; draws[i] is what rng.randrange returns for the i-th alert.
RECURSIVE speak_each(_, _, _)
speak_each(h, ids, draws) ==
    IF ids = << >> THEN [h |-> h, alerts |-> << >>]
    ELSE LET sp == speak_for(h, Head(ids), Head(draws))
             rest == speak_each(sp.h, Tail(ids), Tail(draws))
         IN  [h |-> rest.h,
              alerts |-> <<[alert_id |-> Head(ids), speak_text |-> sp.text]>>
                            \o rest.alerts]

speak_evaluated(e, draws) == speak_each(e.h, e.alerts, draws)

evaluate_spoken(h, snap, phase_state, draws) ==
    speak_evaluated(evaluate(h, snap, phase_state), draws)

----------------------------------------------------------------------------
(* CfiRuntime: state, journal and the handlers of the tick loop.           *)
(*                                                                         *)
(* The handlers thread a record w of everything the supervisor owns:       *)
(* rt (CfiRuntime fields and the position of run()), tracker, hazard,      *)
(* sink, and the journal events and speech calls of the current step.      *)
(* rt.pc is "top" at the loop's sleep, "review_wait" and "debrief_wait"    *)
(* while run_review is awaited, "stopped" when run() has returned and      *)
(* "crashed" when it has raised; inside a step "run" means the handler     *)
(* returned and "raise" that an exception is propagating.                  *)

\* Configuration of the run (CfiConfig), in seconds.
review_window_sec == 3
shutdown_detect_dwell_sec == 2

AIRBORNE_PHASES ==
    {"takeoff", "initial_climb", "cruise", "descent", "approach", "landing"}

PhaseState0 ==
    [phase |-> "preflight", confidence |-> 0, changed |-> FALSE,
     previous_phase |-> None, changed_at_epoch |-> None]

\* CfiRuntime.__init__, followed by run(duration_sec) up to the head of the
\* loop, with config.review_tick_sec = tick.
Runtime0(speak_enabled, tick, duration) ==
    [pc |-> "top", loop_now |-> 0, exc |-> "none", debrief_reason |-> "",
     review_tick_sec |-> tick, duration_sec |-> duration,
     next_review_epoch |-> StartEpoch + tick,
     last_snapshot_ts |-> 0, phase_state |-> PhaseState0,
     session_snapshots |-> << >>, phase_path |-> <<"preflight">>,
     saw_airborne_segment |-> FALSE, shutdown_candidate_since |-> None,
     shutdown_debrief_emitted |-> FALSE, flight_index |-> 1,
     nonurgent_speak_enabled |-> speak_enabled]

\* One line of the runtime event journal.
Event(event, r, reason, spoken) ==
    [event |-> event, flight_index |-> r.flight_index,
     phase |-> r.phase_state.phase, reason |-> reason, spoken |-> spoken]

\* The team_decision line of the journal, which also carries the decision.
DecisionEvent(r, d) ==
    [event |-> "team_decision", flight_index |-> r.flight_index,
     phase |-> r.phase_state.phase, reason |-> "", spoken |-> FALSE,
     decision |-> d]

\* One call of the speech sink.
Call(channel, key, t, r) ==
    [channel |-> channel, key |-> key, t |-> t, result |-> r.result]

\* XPlaneUdpClient.window(seconds) is non-empty: the newest snapshot is in it.
window_nonempty(newest, t, seconds) ==
    seconds > 0 /\ newest # None /\ newest[1].timestamp_sec >= t - seconds

\* What the expert team returns, as the supervisor reads it:
\* decision.speak_now, _is_priority_review(decision), and the class of
\* _select_coach_text(decision): empty, low value, or worth speaking.
Decisions ==
    [speak_now : BOOLEAN, priority : BOOLEAN, coach : {"empty", "low_value", "ok"}]

is_shutdown_candidate(phase, snap) ==
    IF ~snap.f.on_ground THEN FALSE
    ELSE IF phase \notin {"taxi_in", "preflight"} THEN FALSE
    ELSE IF GsKtE6(snap) > KtE6(2) \/ Or0(snap.f.ias) > 8 \/ Or0(snap.f.throttle) > 12
    THEN FALSE
    ELSE IF snap.f.engine_running # None THEN ~snap.f.engine_running[1]
    ELSE IF snap.f.engine_rpm # None THEN snap.f.engine_rpm[1] <= 200
    ELSE Or0(snap.f.parking_brake) >= 50

is_new_flight_activity(snap) ==
    LET gs == GsKtE6(snap)
        engine_on == IF snap.f.engine_running # None THEN snap.f.engine_running[1]
                     ELSE IF snap.f.engine_rpm # None THEN snap.f.engine_rpm[1] > 500
                     ELSE FALSE
    IN  IF ~snap.f.on_ground THEN TRUE
        ELSE IF ~engine_on THEN FALSE
        ELSE IF Or0(snap.f.throttle) > 22 THEN TRUE
        ELSE IF gs > KtE6(3) THEN TRUE
        ELSE IF Or0(snap.f.ias) > 10 THEN TRUE
        ELSE Or0(snap.f.parking_brake) < 20 /\ 2 * gs > KtE6(3)

reset_flight_cycle_state(w) ==
    [w EXCEPT !.tracker = TrackerState0,
              !.rt.phase_state = PhaseState0,
              !.rt.session_snapshots = << >>,
              !.rt.phase_path = <<"preflight">>,
              !.rt.saw_airborne_segment = FALSE,
              !.rt.shutdown_candidate_since = None,
              !.rt.shutdown_debrief_emitted = FALSE]

\* The guard of _maybe_start_new_flight_cycle.
StartsNewCycleAlways(emitted, snap) == is_new_flight_activity(snap)
StartsNewCycle(emitted, snap) == emitted /\ is_new_flight_activity(snap)

maybe_start_new_flight_cycle(w, snap) ==
    IF ~StartsNewCycle(w.rt.shutdown_debrief_emitted, snap) THEN w
    ELSE LET w1 == reset_flight_cycle_state(
                       [w EXCEPT !.rt.flight_index = w.rt.flight_index + 1])
         IN  [w1 EXCEPT !.journal = Append(w.journal,
                  Event("flight_cycle_started", w1.rt, "post_shutdown_activity", FALSE))]

\* The alert loop of _process_snapshot: speak_urgent per alert, in order, the
\* i-th downstream request ending in outcomes[i].  A raised error leaves the loop.
RECURSIVE speak_alerts(_, _, _, _, _)
speak_alerts(s, r, alerts, t, outcomes) ==
    IF alerts = << >>
    THEN [s |-> s, speech |-> << >>, journal |-> << >>, raised |-> FALSE]
    ELSE LET c == speak_urgent(s, Head(alerts), t, Head(outcomes))
             call == Call("urgent", Head(alerts), t, c)
         IN  IF c.raised
             THEN [s |-> c.s, speech |-> <<call>>, journal |-> << >>, raised |-> TRUE]
             ELSE LET rest == speak_alerts(c.s, r, Tail(alerts), t, Tail(outcomes))
                  IN  [s |-> rest.s,
                       speech |-> <<call>> \o rest.speech,
                       journal |-> <<Event("hazard_alert", r, Head(alerts), c.ok)>>
                                   \o rest.journal,
                       raised |-> rest.raised]

\* _run_shutdown_debrief up to the run_review call.
run_shutdown_debrief(w, reason, t) ==
    IF w.rt.shutdown_debrief_emitted THEN w
    ELSE IF w.rt.session_snapshots = << >>
            /\ ~window_nonempty(w.latest, t, Max2(60, review_window_sec))
    THEN [w EXCEPT !.journal = Append(w.journal,
              Event("shutdown_debrief_skipped", w.rt, reason, FALSE))]
    ELSE [w EXCEPT !.rt.pc = "debrief_wait", !.rt.debrief_reason = reason]

\* The dwell test of _maybe_trigger_shutdown_debrief.
ShutdownDwellReachedAlways(dwell_sec) == TRUE
ShutdownDwellReached(dwell_sec) == ~(dwell_sec < shutdown_detect_dwell_sec)

maybe_trigger_shutdown_debrief(w, snap, t) ==
    IF w.rt.shutdown_debrief_emitted THEN w
    ELSE IF ~w.rt.saw_airborne_segment THEN w
    ELSE IF ~is_shutdown_candidate(w.rt.phase_state.phase, snap)
    THEN [w EXCEPT !.rt.shutdown_candidate_since = None]
    ELSE IF w.rt.shutdown_candidate_since = None
    THEN [w EXCEPT !.rt.shutdown_candidate_since = Some(snap.timestamp_sec)]
    ELSE IF ~ShutdownDwellReached(snap.timestamp_sec - w.rt.shutdown_candidate_since[1])
    THEN w
    ELSE run_shutdown_debrief(
             [w EXCEPT !.journal = Append(w.journal,
                  Event("engine_shutdown_detected", w.rt, "", FALSE))],
             "engine_shutdown_detected", t)

\* The airborne latch of _process_snapshot.
SawAirborne(snap, phase) == ~snap.f.on_ground \/ phase \in AIRBORNE_PHASES

\* _process_snapshot, in the order of the source; each stage hands the
\* supervisor's record on to the next.  It leaves pc = "run" when it returned,
\* "debrief_wait" when it is suspended in the debrief's run_review, "raise"
\* when a speak raised.

\* ... the shutdown check, after the alert loop (sp: what the loop did).
process_dispatched(w, sp, snap, t) ==
    IF sp.raised
    THEN [w EXCEPT !.sink = sp.s, !.journal = w.journal \o sp.journal,
                   !.speech = w.speech \o sp.speech,
                   !.rt.pc = "raise", !.rt.exc = "speak"]
    ELSE maybe_trigger_shutdown_debrief(
             [w EXCEPT !.sink = sp.s, !.journal = w.journal \o sp.journal,
                       !.speech = w.speech \o sp.speech],
             snap, t)

\* ... the alert loop over the alerts of evaluate (e).
process_evaluated(w, e, snap, t, outcomes) ==
    process_dispatched([w EXCEPT !.hazard = e.h],
                       speak_alerts(w.sink, w.rt, e.alerts, t, outcomes), snap, t)

\* ... the session buffer, the phase state returned by the tracker (u), the
\* airborne latch, the phase path and the phase_change event.
process_tracked(w, u, snap) ==
    LET appended == Append(w.rt.session_snapshots, snap.timestamp_sec)
        path == w.rt.phase_path
        r == [w.rt EXCEPT
                !.session_snapshots =
                    IF Len(appended) > 100000
                    THEN SubSeq(appended, Len(appended) - 100000 + 1, Len(appended))
                    ELSE appended,
                !.phase_state = u.ps,
                !.saw_airborne_segment = @ \/ SawAirborne(snap, u.ps.phase),
                !.phase_path = IF u.ps.changed /\ path[Len(path)] # u.ps.phase
                               THEN Append(path, u.ps.phase) ELSE path]
    IN  [w EXCEPT !.rt = r, !.tracker = u.s,
                  !.journal = IF u.ps.changed
                              THEN Append(w.journal, Event("phase_change", r, "", FALSE))
                              ELSE w.journal]

process_updated(w, snap, t, outcomes) ==
    process_evaluated(w, evaluate(w.hazard, snap, w.rt.phase_state), snap, t, outcomes)

process_cycle(w, snap, t, outcomes) ==
    process_updated(process_tracked(w, tracker_update(w.tracker, snap), snap),
                    snap, t, outcomes)

process_snapshot(w, snap, t, outcomes) ==
    process_cycle(maybe_start_new_flight_cycle(w, snap), snap, t, outcomes)

\* _run_nonurgent_review from the return of run_review on: the team raised, or
\* returned decision d; o1 and o2 are the outcomes of the downstream requests
\* of speak_nonurgent and of the priority fallback's speak_urgent.

Logged(w, name, reason, spoken) ==
    [w EXCEPT !.journal = Append(w.journal, Event(name, w.rt, reason, spoken))]

\* ... after the priority fallback's speak_urgent (u).
review_fallback(w, key, u, t) ==
    IF u.raised
    THEN [w EXCEPT !.sink = u.s, !.speech = Append(w.speech, Call("urgent", key, t, u)),
                   !.rt.pc = "raise", !.rt.exc = "speak"]
    ELSE Logged([w EXCEPT !.sink = u.s,
                          !.speech = Append(w.speech, Call("urgent", key, t, u))],
                "nonurgent_speech", "priority_review_fallback", u.ok)

\* The fallback test of the review: speak_nonurgent returned false and the
\* review is a priority review.
FallsBackAlways(n, d) == ~n.ok
FallsBack(n, d) == ~n.ok /\ d.priority

\* ... after speak_nonurgent (n).
review_spoken(w, n, d, o2, t) ==
    IF n.raised
    THEN [w EXCEPT !.sink = n.s, !.speech = Append(w.speech, Call("nonurgent", "", t, n)),
                   !.rt.pc = "raise", !.rt.exc = "speak"]
    ELSE IF FallsBack(n, d)
    THEN review_fallback(
             [w EXCEPT !.sink = n.s,
                       !.speech = Append(w.speech, Call("nonurgent", "", t, n))],
             "priority_review_" \o w.rt.phase_state.phase,
             speak_urgent(n.s, "priority_review_" \o w.rt.phase_state.phase, t, o2), t)
    ELSE Logged([w EXCEPT !.sink = n.s,
                          !.speech = Append(w.speech, Call("nonurgent", "", t, n))],
                "nonurgent_speech", "nonurgent", n.ok)

\* The low-value test of the review: low-value text is skipped unless the
\* review is a priority review.
SkipsLowValueAlways(d) == d.coach = "low_value"
SkipsLowValue(d) == d.coach = "low_value" /\ ~d.priority

\* The two tests that end the review after the team_decision event: speaking
\* is disabled, or the cycle's shutdown debrief has been emitted.
ReviewSilencedByFlagOnly(r) == ~r.nonurgent_speak_enabled
ReviewSilenced(r) == ~r.nonurgent_speak_enabled \/ r.shutdown_debrief_emitted

\* ... after the team_decision event.
review_decided(w, d, o1, o2, t) ==
    IF ReviewSilenced(w.rt) THEN w
    ELSE IF ~d.speak_now /\ ~d.priority THEN w
    ELSE IF d.coach = "empty"
    THEN Logged(w, "nonurgent_speech_skipped", "empty_coach_text", FALSE)
    ELSE IF SkipsLowValue(d)
    THEN Logged(w, "nonurgent_speech_skipped", "low_value_text", FALSE)
    ELSE IF recent_urgent(w.sink, t, nonurgent_suppress_after_urgent_sec)
    THEN Logged(w, "nonurgent_speech_suppressed", "recent_urgent", FALSE)
    ELSE review_spoken(w, speak_nonurgent(w.sink, t, o1), d, o2, t)

review_return(w, raised, d, o1, o2, t) ==
    IF raised THEN [w EXCEPT !.rt.pc = "raise", !.rt.exc = "run_review"]
    ELSE review_decided(
             [w EXCEPT !.rt.pc = "run",
                       !.journal = Append(w.journal, DecisionEvent(w.rt, d))],
             d, o1, o2, t)

\* _run_shutdown_debrief from the return of run_review on.  pc = "raise" when
\* the debrief speech raised.

\* ... after speak_nonurgent (n).
debrief_spoken(w, n, t) ==
    IF n.raised
    THEN [w EXCEPT !.sink = n.s, !.speech = Append(w.speech, Call("nonurgent", "", t, n)),
                   !.rt.pc = "raise"]
    ELSE Logged([w EXCEPT !.sink = n.s,
                          !.speech = Append(w.speech, Call("nonurgent", "", t, n))],
                "shutdown_debrief_speech", "", n.ok)

\* ... after the shutdown_debrief event and the emitted flag.
debrief_emitted(w, d, o1, t) ==
    IF ~(w.rt.nonurgent_speak_enabled /\ d.coach # "empty") THEN w
    ELSE IF d.coach = "low_value"
    THEN Logged(w, "shutdown_debrief_speech_suppressed", "low_value_text", FALSE)
    ELSE IF recent_urgent(w.sink, t, nonurgent_suppress_after_urgent_sec)
    THEN Logged(w, "shutdown_debrief_speech_suppressed", "recent_urgent", FALSE)
    ELSE debrief_spoken(w, speak_nonurgent(w.sink, t, o1), t)

debrief_return(w, raised, d, o1, t) ==
    IF raised
    THEN Logged([w EXCEPT !.rt.pc = "run"], "shutdown_debrief_failed",
                w.rt.debrief_reason, FALSE)
    ELSE debrief_emitted(
             [Logged([w EXCEPT !.rt.pc = "run"], "shutdown_debrief",
                     w.rt.debrief_reason, FALSE)
                 EXCEPT !.rt.shutdown_debrief_emitted = TRUE],
             d, o1, t)

\* run(): the end of one loop iteration, at the sleep.
end_iteration(w) == [w EXCEPT !.rt.pc = "top", !.rt.loop_now = 0]

\* run(): run() returns, or re-raises the exception that left the loop.
finish(w) ==
    [w EXCEPT !.rt.pc = IF w.rt.exc = "none" THEN "stopped" ELSE "crashed",
              !.rt.loop_now = 0]

\* run(): the finally block, up to the debrief's run_review call.
run_finally(w, stop_reason, t) ==
    LET w1 == run_shutdown_debrief([w EXCEPT !.rt.pc = "run"], stop_reason, t)
    IN  IF w1.rt.pc = "debrief_wait" THEN w1 ELSE finish(w1)

\* run(): the review check of the iteration, with the iteration's own `now`.
review_check(w, t) ==
    IF w.rt.loop_now >= w.rt.next_review_epoch
    THEN IF ~window_nonempty(w.latest, t, review_window_sec)
         THEN end_iteration([w EXCEPT !.rt.next_review_epoch =
                                          w.rt.loop_now + w.rt.review_tick_sec])
         ELSE [w EXCEPT !.rt.pc = "review_wait"]
    ELSE end_iteration(w)

\* run(): what follows _process_snapshot in the iteration.
after_process_unawaited(w, t) ==
    IF w.rt.pc = "raise" THEN run_finally(w, "unknown", t) ELSE review_check(w, t)
after_process(w, t) ==
    CASE w.rt.pc = "raise" -> run_finally(w, "unknown", t)
      [] w.rt.pc = "debrief_wait" -> w
      [] OTHER -> review_check(w, t)

\* run(): what follows _run_nonurgent_review in the iteration.
after_review(w, t) ==
    IF w.rt.pc = "raise" THEN run_finally(w, "unknown", t)
    ELSE end_iteration([w EXCEPT !.rt.next_review_epoch =
                                     w.rt.loop_now + w.rt.review_tick_sec])

\* What follows _run_shutdown_debrief: the rest of the iteration when it was
\* called by the shutdown detector, the end of run() when called by finally
\* (where suppress(Exception) swallows what the debrief raised).
after_debrief(w, exc_before, t) ==
    IF w.rt.debrief_reason = "engine_shutdown_detected"
    THEN IF w.rt.pc = "raise"
         THEN run_finally([w EXCEPT !.rt.exc = "speak"], "unknown", t)
         ELSE review_check(w, t)
    ELSE finish([w EXCEPT !.rt.exc = exc_before])

\* Observation of a step: events per flight cycle, whether a snapshot of the
\* cycle was off the ground, and since when the shutdown preconditions have
\* held on every processed snapshot.
Obs0 ==
    [step |-> "init", detected |-> 0, debriefs |-> 0,
     airborne_in_cycle |-> FALSE, pre_since |-> None]

Observed(o, w, step, processed) ==
    LET count(name) ==
            Cardinality({i \in DOMAIN w.journal : w.journal[i].event = name})
        base == IF count("flight_cycle_started") > 0 THEN Obs0 ELSE o
        pre_ok == /\ processed # None
                  /\ w.rt.saw_airborne_segment
                  /\ is_shutdown_candidate(w.rt.phase_state.phase, processed[1])
    IN  [step |-> step,
         detected |-> Min2(2, base.detected + count("engine_shutdown_detected")),
         debriefs |-> Min2(2, base.debriefs + count("shutdown_debrief")),
         airborne_in_cycle |->
             base.airborne_in_cycle \/ (processed # None /\ ~processed[1].f.on_ground),
         pre_since |-> IF processed = None THEN base.pre_since
                       ELSE IF ~pre_ok THEN None
                       ELSE IF base.pre_since = None
                       THEN Some(processed[1].timestamp_sec)
                       ELSE base.pre_since]

----------------------------------------------------------------------------
(* Specification SpecTracker: the tracker alone, fed any snapshot sequence  *)
(* with non-decreasing timestamps (starting at 0, as the unit tests do).    *)

TrackerMaxTime == 8
TrackerMaxStep == 2

\* trk observes each update: the snapshot's time, the candidate chosen for it
\* and the PhaseState returned, plus, kept apart from the tracker's own
\* candidate_since, the run of consecutive ticks with the same candidate.
Trk0 ==
    [ticks |-> 0, ts |-> 0, candidate |-> "preflight", run_start |-> 0,
     phase_before |-> "preflight", was_airborne_before |-> FALSE,
     ps |-> [phase |-> "preflight", confidence |-> 0, changed |-> FALSE,
             previous_phase |-> None, changed_at_epoch |-> None]]

Observe(o, s, snap, r) ==
    [ticks |-> Min2(o.ticks + 1, 2),
     ts |-> snap.timestamp_sec,
     candidate |-> r.candidate,
     run_start |-> IF o.ticks > 0 /\ o.candidate = r.candidate
                   THEN o.run_start ELSE snap.timestamp_sec,
     phase_before |-> s.phase,
     was_airborne_before |-> s.was_airborne,
     ps |-> r.ps]

TrackerInit ==
    /\ now = 0
    /\ tracker = TrackerState0
    /\ trk = Trk0
    /\ sink = Sink0(FALSE)
    /\ calls = EmptyDict
    /\ rt = Runtime0(FALSE, 1, 0)
    /\ hazard = Hazard0
    /\ latest = None
    /\ journal = << >>
    /\ speech = << >>
    /\ obs = Obs0

TrackerStep ==
    \E kind \in AllKinds, dt \in 0..TrackerMaxStep :
        /\ now + dt <= TrackerMaxTime
        /\ LET snap == Stamp(kind, now + dt)
               r == tracker_update(tracker, snap)
           IN  /\ tracker' = r.s
               /\ trk' = Observe(trk, tracker, snap, r)
        /\ now' = now + dt
        /\ UNCHANGED <<sink, calls, runtime_vars>>

TrackerNext == TrackerStep

SpecTracker == TrackerInit /\ [][TrackerNext]_vars

\* The phases of a departure.
DeparturePhases == {"preflight", "taxi_out", "takeoff"}

\* C38: once was_airborne is true, the candidate of every update is none of
\* PREFLIGHT, TAXI_OUT and TAKEOFF (on the ground it is LANDING or TAXI_IN)
\* and no update changes the confirmed phase to one of them.
C38_NoDepartureAfterAirborne ==
    (trk.ticks > 0 /\ (trk.was_airborne_before \/ tracker.was_airborne)) =>
        /\ tracker.was_airborne
        /\ trk.candidate \notin DeparturePhases
        /\ tracker.candidate \notin DeparturePhases
        /\ trk.ps.changed => trk.ps.phase \notin DeparturePhases
        /\ tracker.phase \in DeparturePhases => tracker.phase = trk.phase_before

\* After a flight and a confirmed TAXI_IN, a fast ground roll was confirmed
\* as LANDING.
C38_Witness ==
    /\ trk.was_airborne_before
    /\ trk.ps.changed
    /\ trk.ps.previous_phase = Some("taxi_in")
    /\ trk.ps.phase = "landing"

\* The tracker was still in a departure phase when was_airborne was set.
C38_WitnessStillDeparture ==
    /\ trk.was_airborne_before
    /\ tracker.phase \in DeparturePhases

\* C4: the confirmed phase changes to c on a tick only if c has been the
\* candidate on every tick since a tick at least min_dwell(c) seconds earlier;
\* a candidate run shorter than its dwell leaves the confirmed phase unchanged.
C4_AntiFlap ==
    (trk.ticks > 0 /\ tracker.phase # trk.phase_before) =>
        /\ trk.candidate = tracker.phase
        /\ trk.ts - trk.run_start >= DEFAULT_MIN_DWELL_SEC(tracker.phase)

\* A phase other than the initial one is confirmed after its dwell, and a
\* different candidate was seen just before the run started.
C4_Witness ==
    /\ trk.ticks > 0
    /\ tracker.phase # trk.phase_before
    /\ tracker.phase = "cruise"
    /\ trk.ts - trk.run_start >= 5
    /\ trk.run_start > 0

\* C22: update returns changed = true on exactly the ticks where the
\* confirmed phase after the update differs from the one before it; on such a
\* tick previous_phase is the pre-update phase and differs from phase, on
\* every other tick previous_phase is none.
C22_ChangedExactlyOnConfirmation ==
    trk.ticks > 0 =>
        /\ trk.ps.phase = tracker.phase
        /\ trk.ps.changed <=> tracker.phase # trk.phase_before
        /\ trk.ps.changed =>
              /\ trk.ps.previous_phase = Some(trk.phase_before)
              /\ trk.ps.previous_phase[1] # trk.ps.phase
        /\ ~trk.ps.changed => trk.ps.previous_phase = None

\* A tick that confirmed TAXI_OUT after PREFLIGHT, and (C22_WitnessQuiet) a
\* tick whose candidate differs from the confirmed phase without a change.
C22_Witness ==
    /\ trk.ticks > 0
    /\ trk.ps.changed
    /\ trk.phase_before = "preflight"
    /\ trk.ps.phase = "taxi_out"
    /\ trk.ps.previous_phase = Some("preflight")

C22_WitnessQuiet ==
    /\ trk.ticks > 0
    /\ ~trk.ps.changed
    /\ trk.candidate # tracker.phase
    /\ trk.ps.previous_phase = None

----------------------------------------------------------------------------
(* Specification SpecSink: the speech sink alone, called at any times with  *)
(* any keys and any downstream outcomes.                                    *)

SinkMaxTime == 3
SinkKeys == {"stall_or_low_speed", "priority_review_cruise"}

\* calls[k]: the last two speak_urgent calls made with key k, oldest first.
ObserveCall(c, key, t, r) ==
    LET old == DictGet(c, key, << >>)
        rec == [t |-> t, result |-> r.result, downstream |-> r.downstream]
    IN  DictPut(c, key, IF old = << >> THEN <<rec>> ELSE <<old[Len(old)], rec>>)

SinkInit ==
    /\ now = StartEpoch
    /\ tracker = TrackerState0
    /\ trk = Trk0
    /\ \E dry \in BOOLEAN : sink = Sink0(dry)
    /\ calls = EmptyDict
    /\ rt = Runtime0(FALSE, 1, 0)
    /\ hazard = Hazard0
    /\ latest = None
    /\ journal = << >>
    /\ speech = << >>
    /\ obs = Obs0

SinkSpeakUrgent ==
    \E key \in SinkKeys, outcome \in SpeakOutcomes :
        LET r == speak_urgent(sink, key, now, outcome)
        IN  /\ sink' = r.s
            /\ calls' = ObserveCall(calls, key, now, r)
            /\ UNCHANGED <<now, tracker, trk, runtime_vars>>

SinkSpeakNonurgent ==
    \E outcome \in SpeakOutcomes :
        /\ sink' = speak_nonurgent(sink, now, outcome).s
        /\ UNCHANGED <<now, tracker, trk, calls, runtime_vars>>

SinkTick ==
    /\ now < StartEpoch + SinkMaxTime
    /\ now' = now + 1
    /\ UNCHANGED <<tracker, trk, sink, calls, runtime_vars>>

SinkNext == SinkSpeakUrgent \/ SinkSpeakNonurgent \/ SinkTick

SpecSink == SinkInit /\ [][SinkNext]_vars

TwoCallsWithinCooldown(k) ==
    /\ k \in DOMAIN calls
    /\ Len(calls[k]) = 2
    /\ calls[k][2].t - calls[k][1].t < urgent_cooldown_sec

----------------------------------------------------------------------------
(* Specification SpecRuntime: the supervisor's tick loop with its telemetry *)
(* source, speech sink and expert team.  A step is what runs between two    *)
(* awaits of run(); the clock advances and telemetry arrives at the awaits. *)
(* At the loop's sleep the clock advances only when the iteration has       *)
(* nothing to do: the loop polls every 50 ms, far below the clock's second. *)
(* The run is given a duration, run(duration_sec), and ends when it has     *)
(* elapsed; the clock stops there.                                          *)

RuntimeDuration == 3
RuntimeReviewTick == 1
RuntimeKinds == {"parked", "roll", "climb", "stall"}
NoDecision == [speak_now |-> FALSE, priority |-> FALSE, coach |-> "empty"]

World ==
    [rt |-> rt, tracker |-> tracker, hazard |-> hazard, sink |-> sink,
     latest |-> latest, journal |-> << >>, speech |-> << >>]

Commit(w, step, processed) ==
    /\ rt' = w.rt
    /\ tracker' = w.tracker
    /\ hazard' = w.hazard
    /\ sink' = w.sink
    /\ journal' = w.journal
    /\ speech' = w.speech
    /\ obs' = Observed(obs, w, step, processed)
    /\ UNCHANGED <<now, latest, trk, calls>>

SnapshotDueUnguarded == latest # None
SnapshotDue == latest # None /\ latest[1].timestamp_sec > rt.last_snapshot_ts
ReviewDue == now >= rt.next_review_epoch
Running == rt.pc \in {"top", "review_wait", "debrief_wait"}
InLoop ==
    \/ rt.pc \in {"top", "review_wait"}
    \/ rt.pc = "debrief_wait" /\ rt.debrief_reason = "engine_shutdown_detected"
DurationElapsed == now - StartEpoch >= rt.duration_sec

\* After start(): the sink holds the timestamp of the welcome message when
\* it was spoken.
RuntimeInit ==
    /\ now = StartEpoch
    /\ tracker = TrackerState0
    /\ trk = Trk0
    /\ calls = EmptyDict
    /\ hazard = Hazard0
    /\ latest = None
    /\ journal = << >>
    /\ speech = << >>
    /\ obs = Obs0
    /\ \E enabled \in BOOLEAN, welcome \in {"success", "failure"} :
           /\ rt = Runtime0(enabled, RuntimeReviewTick, RuntimeDuration)
           /\ sink = IF enabled
                    THEN speak_nonurgent(Sink0(FALSE), StartEpoch, welcome).s
                    ELSE Sink0(FALSE)

\* The telemetry source's receive loop stamps a snapshot with time.time().
\* Once run() has left its loop the source is no longer read.
TelemetryPublish ==
    /\ InLoop
    /\ IF latest = None THEN TRUE ELSE latest[1].timestamp_sec < now
    /\ \E kind \in RuntimeKinds : latest' = Some(Stamp(kind, now))
    /\ journal' = << >>
    /\ speech' = << >>
    /\ obs' = [obs EXCEPT !.step = "TelemetryPublish"]
    /\ UNCHANGED <<now, tracker, trk, sink, calls, rt, hazard>>

Tick ==
    /\ Running
    /\ rt.pc = "top" => ~SnapshotDue /\ ~ReviewDue
    /\ ~DurationElapsed
    /\ now' = now + 1
    /\ journal' = << >>
    /\ speech' = << >>
    /\ obs' = [obs EXCEPT !.step = "Tick"]
    /\ UNCHANGED <<tracker, trk, sink, calls, rt, hazard, latest>>

\* One iteration of the loop of run(), up to its next await of run_review or
\* its sleep.
LoopIteration ==
    /\ rt.pc = "top"
    /\ ~DurationElapsed
    /\ SnapshotDue \/ ReviewDue
    /\ LET w0 == [World EXCEPT !.rt.pc = "run", !.rt.loop_now = now]
       IN  IF SnapshotDue
           THEN LET snap == latest[1]
                    w1 == [w0 EXCEPT !.rt.last_snapshot_ts = snap.timestamp_sec]
                    n == Len(process_snapshot(w1, snap, now,
                                              [i \in 1..5 |-> "success"]).speech)
                IN  \E outcomes \in [1..n -> SpeakOutcomes] :
                        Commit(after_process(process_snapshot(w1, snap, now, outcomes), now),
                               "ProcessSnapshot", Some(snap))
           ELSE Commit(review_check(w0, now), "ReviewCheck", None)

\* The run_review call of a non-urgent review returns or raises.
ReviewReturn ==
    /\ rt.pc = "review_wait"
    /\ \E raised \in BOOLEAN, o1 \in SpeakOutcomes, o2 \in SpeakOutcomes :
         \E d \in IF raised THEN {NoDecision} ELSE Decisions :
           Commit(after_review(review_return(World, raised, d, o1, o2, now), now),
                  "ReviewReturn", None)

\* The run_review call of a shutdown debrief returns or raises.
DebriefReturn ==
    /\ rt.pc = "debrief_wait"
    /\ \E raised \in BOOLEAN, o1 \in SpeakOutcomes :
         \E d \in IF raised THEN {NoDecision} ELSE Decisions :
           Commit(after_debrief(debrief_return(World, raised, d, o1, now), rt.exc, now),
                  "DebriefReturn", None)

\* The loop finds the run's duration elapsed and breaks.
RunEnd ==
    /\ rt.pc = "top"
    /\ DurationElapsed
    /\ Commit(run_finally(World, "duration_elapsed", now), "RunEnd", None)

RuntimeNext ==
    \/ TelemetryPublish
    \/ Tick
    \/ LoopIteration
    \/ ReviewReturn
    \/ DebriefReturn
    \/ RunEnd

SpecRuntime == RuntimeInit /\ [][RuntimeNext]_vars

HasEvent(name) == \E i \in DOMAIN journal : journal[i].event = name
HasEventFor(name, reason) ==
    \E i \in DOMAIN journal : journal[i].event = name /\ journal[i].reason = reason

\* C1: on every review tick at which the sink's most recent urgent utterance
\* lies within nonurgent_suppress_after_urgent_sec when the review decides,
\* speak_nonurgent is not called on that tick.
C1_SuppressionLaw ==
    [][(/\ rt.pc = "review_wait"
        /\ rt'.pc # "review_wait"
        /\ now - sink.last_urgent_epoch <= nonurgent_suppress_after_urgent_sec)
       => \A i \in DOMAIN speech' : speech'[i].channel # "nonurgent"]_vars

\* A review whose decision asked to speak was suppressed, exactly at the edge
\* of the suppression window, and nothing was spoken.
C1_Witness ==
    /\ obs.step = "ReviewReturn"
    /\ HasEventFor("nonurgent_speech_suppressed", "recent_urgent")
    /\ speech = << >>
    /\ sink.last_urgent_epoch > 0
    /\ now - sink.last_urgent_epoch = nonurgent_suppress_after_urgent_sec

\* The step is the return of a review's run_review call with a decision,
\* made while the sink's recent_urgent(nonurgent_suppress_after_urgent_sec)
\* is true.
ReviewDecidedWhileUrgentRecent ==
    /\ rt.pc = "review_wait"
    /\ rt'.pc # "review_wait"
    /\ rt'.exc # "run_review"
    /\ recent_urgent(sink, now, nonurgent_suppress_after_urgent_sec)

SuppressedAfterDecision(j) ==
    /\ Len(j) = 2
    /\ j[1].event = "team_decision"
    /\ j[2].event = "nonurgent_speech_suppressed"
    /\ j[2].reason = "recent_urgent"

\* C11 as stated: on every review tick on which recent_urgent is true the
\* journal receives team_decision and then nonurgent_speech_suppressed with
\* reason recent_urgent, whatever decision the team returned.
C11_AlwaysSuppressedEvent ==
    [][ReviewDecidedWhileUrgentRecent => SuppressedAfterDecision(journal')]_vars

\* The decision is one the review would speak: non-urgent speaking is on, no
\* debrief was emitted in the cycle, the decision asks to speak or is a
\* priority review, and its coach text is non-empty and not skipped as low
\* value.
WouldSpeak(r, d) ==
    /\ r.nonurgent_speak_enabled
    /\ ~r.shutdown_debrief_emitted
    /\ d.speak_now \/ d.priority
    /\ d.coach # "empty"
    /\ d.coach = "ok" \/ d.priority

\* C11 amended: on such a tick the journal receives team_decision first; it
\* is followed by nonurgent_speech_suppressed with reason recent_urgent
\* exactly when the decision is one the review would speak; otherwise at most
\* a nonurgent_speech_skipped event follows; nothing is spoken either way.
C11_SuppressedEventWhenWouldSpeak ==
    [][ReviewDecidedWhileUrgentRecent =>
         /\ Len(journal') >= 1
         /\ journal'[1].event = "team_decision"
         /\ WouldSpeak(rt, journal'[1].decision) <=> SuppressedAfterDecision(journal')
         /\ ~WouldSpeak(rt, journal'[1].decision) =>
               \/ Len(journal') = 1
               \/ Len(journal') = 2 /\ journal'[2].event = "nonurgent_speech_skipped"
         /\ speech' = << >>]_vars

\* A priority review with low-value text was decided while an urgent
\* utterance was recent, and was suppressed for that reason.
C11_Witness ==
    /\ obs.step = "ReviewReturn"
    /\ SuppressedAfterDecision(journal)
    /\ journal[1].decision.priority
    /\ journal[1].decision.coach = "low_value"
    /\ ~journal[1].decision.speak_now
    /\ recent_urgent(sink, now, nonurgent_suppress_after_urgent_sec)

\* A snapshot the supervisor has not processed yet and that fires an urgent rule.
HazardSnapshotPending ==
    /\ SnapshotDue
    /\ evaluate(hazard, latest[1], rt.phase_state).alerts # << >>

\* C3 as stated: a hazard snapshot published while run_review is pending is
\* evaluated without waiting for the call: when the call returns, no hazard
\* snapshot published a second or more earlier is still unevaluated.
C3_HazardsEvaluatedDuringReview ==
    obs.step = "ReviewReturn" =>
        ~(HazardSnapshotPending /\ latest[1].timestamp_sec < now)

\* C9 as stated: when run_review raises in a non-urgent review, the review is
\* skipped and the tick loop keeps running.
C9_LoopSurvivesReviewError ==
    rt.exc = "run_review" => rt.pc \in {"top", "review_wait"}

\* C10 as stated: a speech attempt whose downstream speak reports non-success
\* or fails records no cooldown timestamp and does not end the tick loop.
C10_FailedUtteranceTolerated ==
    \A i \in DOMAIN speech :
        speech[i].result \in {"failure", "error"} =>
            /\ rt.exc # "speak"
            /\ IF speech[i].channel = "urgent"
               THEN DictGet(sink.last_urgent_by_key, speech[i].key, 0) # speech[i].t
               ELSE sink.last_nonurgent_epoch # speech[i].t

----------------------------------------------------------------------------
(* Specification SpecFlight: the same supervisor over a longer run, in the  *)
(* configuration where no review falls due within the run (review_tick_sec  *)
(* above the duration), speech is a dry run and non-urgent speaking is off: *)
(* what remains is telemetry, phase tracking, hazards, shutdown detection,  *)
(* the debrief and the flight cycles.  The simulator streams: every second  *)
(* of the run brings a snapshot.                                            *)

FlightDuration == 9
FlightReviewTick == 10

FlightInit ==
    /\ now = StartEpoch
    /\ tracker = TrackerState0
    /\ trk = Trk0
    /\ calls = EmptyDict
    /\ hazard = Hazard0
    /\ latest = None
    /\ journal = << >>
    /\ speech = << >>
    /\ obs = Obs0
    /\ rt = Runtime0(FALSE, FlightReviewTick, FlightDuration)
    /\ sink = Sink0(TRUE)

\* The clock advances once the second's snapshot has been published.
FlightTick ==
    /\ latest # None
    /\ latest[1].timestamp_sec = now
    /\ Tick

FlightNext ==
    \/ TelemetryPublish
    \/ FlightTick
    \/ LoopIteration
    \/ DebriefReturn
    \/ RunEnd

SpecFlight == FlightInit /\ [][FlightNext]_vars

\* The shutdown preconditions have held on every processed snapshot over a
\* span of at least shutdown_detect_dwell_sec, up to the last one processed.
PreconditionsHeldForDwell ==
    /\ obs.pre_since # None
    /\ rt.last_snapshot_ts - obs.pre_since[1] >= shutdown_detect_dwell_sec

C6_OneDetectionOneDebriefPerCycle ==
    obs.detected <= 1 /\ obs.debriefs <= 1

\* The step processes the snapshot in `latest`.
ProcessStep == rt.pc = "top" /\ rt'.last_snapshot_ts # rt.last_snapshot_ts

\* C7: after a debrief was emitted, the processed snapshot that meets
\* new-flight activity increments flight_index by one, journals
\* flight_cycle_started and is appended to and evaluated in a fresh cycle
\* (phase PREFLIGHT, empty buffer, path [PREFLIGHT], latch and shutdown flags
\* cleared); any other processed snapshot resets nothing, and flight_index
\* changes in no other way.
C7_FlightCycleReset ==
    [][IF ProcessStep
       THEN IF rt.shutdown_debrief_emitted /\ is_new_flight_activity(latest[1])
            THEN /\ rt'.flight_index = rt.flight_index + 1
                 /\ Len(journal') >= 1
                 /\ journal'[1].event = "flight_cycle_started"
                 /\ journal'[1].flight_index = rt.flight_index + 1
                 /\ rt'.session_snapshots = <<latest[1].timestamp_sec>>
                 /\ tracker' = tracker_update(TrackerState0, latest[1]).s
                 /\ rt'.phase_state.phase = "preflight"
                 /\ rt'.phase_path = <<"preflight">>
                 /\ rt'.saw_airborne_segment = ~latest[1].f.on_ground
                 /\ ~rt'.shutdown_debrief_emitted
                 /\ rt'.shutdown_candidate_since = None
            ELSE /\ rt'.flight_index = rt.flight_index
                 /\ \A i \in DOMAIN journal' : journal'[i].event # "flight_cycle_started"
                 /\ rt'.session_snapshots =
                        Append(rt.session_snapshots, latest[1].timestamp_sec)
                 /\ SubSeq(rt'.phase_path, 1, Len(rt.phase_path)) = rt.phase_path
                 /\ rt.saw_airborne_segment => rt'.saw_airborne_segment
                 /\ rt'.shutdown_debrief_emitted = rt.shutdown_debrief_emitted
       ELSE rt'.flight_index = rt.flight_index]_vars

\* A second flight cycle has just been started by a snapshot on the ground,
\* which is the only snapshot of its buffer.
C7_Witness ==
    /\ obs.step = "ProcessSnapshot"
    /\ HasEvent("flight_cycle_started")
    /\ rt.flight_index = 2
    /\ latest[1].f.on_ground
    /\ rt.session_snapshots = <<rt.last_snapshot_ts>>
    /\ ~rt.saw_airborne_segment

\* C40: the phase tracker and the hazard monitor hold the same learned
\* field elevation, so both compute the same AGL for a snapshot.
C40_BaselinesEqual ==
    /\ tracker.field_elevation_m = hazard.field_elevation_m
    /\ latest # None =>
          agl_ft(latest[1], tracker.field_elevation_m)
              = agl_ft(latest[1], hazard.field_elevation_m)

\* What does hold: the two baselines are equal until the first flight-cycle
\* reset, and from then on the tracker's is absent or equal to the monitor's.
C40_BaselinesEqualUntilReset ==
    /\ rt.flight_index = 1 => tracker.field_elevation_m = hazard.field_elevation_m
    /\ tracker.field_elevation_m # None =>
          tracker.field_elevation_m = hazard.field_elevation_m

\* A new flight cycle began on a snapshot that teaches no field elevation:
\* the new tracker has none, the monitor has kept the one of the flight
\* before.
C40_BaselinesDiffer ==
    /\ rt.flight_index = 2
    /\ rt.pc = "top"
    /\ tracker.field_elevation_m = None
    /\ hazard.field_elevation_m # None

\* The snapshot is off the ground with an indicated airspeed of 60 kt or more.
AirborneFast(snap) == ~snap.f.on_ground /\ snap.f.ias # None /\ snap.f.ias[1] >= 60

\* C23: was_airborne is false initially, becomes true on the first snapshot
\* off the ground with IAS >= 60, and is never set back to false by an
\* update: it is cleared only when the supervisor replaces the tracker at a
\* new flight cycle (and the snapshot that starts the cycle can set it again).
C23_WasAirborneLatch ==
    /\ [](obs.step = "init" => ~tracker.was_airborne)
    /\ [][IF ProcessStep
          THEN LET replaced == \E i \in DOMAIN journal' :
                                  journal'[i].event = "flight_cycle_started"
                   before == IF replaced THEN FALSE ELSE tracker.was_airborne
               IN  tracker'.was_airborne <=> (before \/ AirborneFast(latest[1]))
          ELSE tracker'.was_airborne = tracker.was_airborne]_vars

\* The latch is still set on a snapshot on the ground, in the first cycle.
C23_Witness ==
    /\ obs.step = "ProcessSnapshot"
    /\ tracker.was_airborne
    /\ latest[1].f.on_ground
    /\ rt.flight_index = 1

\* A new flight cycle began on the ground and the latch is clear again.
C23_WitnessCleared ==
    /\ obs.step = "ProcessSnapshot"
    /\ HasEvent("flight_cycle_started")
    /\ ~tracker.was_airborne

\* Off the ground below 60 kt the latch is not set.
C23_WitnessSlow ==
    /\ obs.step = "ProcessSnapshot"
    /\ ~latest[1].f.on_ground
    /\ ~tracker.was_airborne

\* C8 as stated: engine_shutdown_detected, and the debrief it triggers, are
\* journaled in a flight cycle only if a snapshot processed earlier in the
\* cycle was off the ground.
C8_ShutdownOnlyAfterAirborne ==
    (HasEvent("engine_shutdown_detected")
       \/ HasEventFor("shutdown_debrief", "engine_shutdown_detected"))
        => obs.airborne_in_cycle

----------------------------------------------------------------------------
(* Specification SpecHazard: the hazard monitor alone, constructed with    *)
(* one of three profiles, evaluating any sequence of snapshots in any      *)
(* phase, while the phrase refresh loop of the runtime updates the speech  *)
(* variants.  rt holds the hazard profile of the runtime's session         *)
(* profile; obs records the last call, its result, the text last spoken    *)
(* per rule since that rule's variant list was last replaced, and whether  *)
(* a slow TAXI_IN snapshot was evaluated since the last airborne one.      *)

HazardKinds ==
    {"fast_taxi", "roll", "rollout_edge", "ground_stall_warn",
     "stall", "no_ias", "blind_low", "dive"}
HazardPhases == {"taxi_out", "taxi_in", "approach"}
MaxDraw == 2
\* The number of calls (evaluate, refresh) a behaviour makes.
HazardMaxCalls == 3

\* agent_team's turboprop baseline: three thresholds tuned, all keys present.
TurbopropProfile ==
    [DefaultProfile EXCEPT !.thresholds =
        [DefaultThresholds EXCEPT !.low_airspeed_kt = 85, !.max_taxi_speed_kt = 25,
                                  !.unstable_approach_max_ias_kt = 130]]
\* The profile of test_plane_specific_threshold_profile: one rule, two keys.
JetTestProfile ==
    [enabled_rules |-> {"stall_or_low_speed"},
     thresholds |-> [low_airspeed_kt |-> 120, low_airspeed_min_agl_ft |-> 100],
     speech_variants |-> DefaultVariants]
HazardProfiles == {DefaultProfile, TurbopropProfile, JetTestProfile}

\* What refresh_hazard_phrase_variants may return: nothing, or new lines for
\* some rules (unpunctuated, blank or repeated lines included).
PhraseUpdates ==
    {EmptyDict,
     [stall_or_low_speed |-> <<"hold", "hold.">>],
     [stall_or_low_speed |-> <<" ">>],
     [excessive_taxi_speed |-> <<"slow", " ">>],
     [pull_up_now |-> <<"hold.", "slow.">>]}

HazardObs0 ==
    [step |-> "init", calls |-> 0, phase |-> "preflight", alerts |-> << >>,
     update |-> EmptyDict, last_text |-> EmptyDict, slow_seen |-> FALSE]

\* An on-ground snapshot with groundspeed below 25 kt and IAS below 30 kt.
SlowOnGround(snap) ==
    /\ snap.f.on_ground
    /\ snap.f.groundspeed # None /\ GsKtE6(snap) < KtE6(25)
    /\ snap.f.ias # None /\ snap.f.ias[1] < 30

ProfileOf(h) ==
    [enabled_rules |-> h.enabled_rules, thresholds |-> h.thresholds,
     speech_variants |-> h.speech_variants]

HazardInit ==
    /\ now = StartEpoch
    /\ tracker = TrackerState0
    /\ trk = Trk0
    /\ sink = Sink0(FALSE)
    /\ calls = << >>
    /\ \E profile \in HazardProfiles :
         /\ hazard = set_hazard_profile(Hazard0, profile)
         /\ rt = [hazard_profile |-> profile]
    /\ latest = None
    /\ journal = << >>
    /\ speech = << >>
    /\ obs = HazardObs0

\* The text last spoken per rule, after a call that returned these alerts.
RECURSIVE RememberTexts(_, _)
RememberTexts(last, alerts) ==
    IF alerts = << >> THEN last
    ELSE RememberTexts(DictPut(last, Head(alerts).alert_id, Head(alerts).speak_text),
                       Tail(alerts))

\* One call of HazardMonitor.evaluate(snapshot, phase_state).
HazardEvaluate ==
    /\ obs.calls < HazardMaxCalls
    /\ \E kind \in HazardKinds, phase \in HazardPhases :
      LET snap == Stamp(kind, now)
          ps == [PhaseState0 EXCEPT !.phase = phase]
          n == Len(evaluate(hazard, snap, ps).alerts)
      IN  \E draws \in [1..n -> 0..MaxDraw] :
            LET e == evaluate_spoken(hazard, snap, ps, draws)
            IN  /\ hazard' = e.h
                /\ latest' = Some(snap)
                /\ obs' = [obs EXCEPT !.step = "evaluate", !.calls = @ + 1,
                                      !.phase = phase,
                                      !.alerts = e.alerts,
                                      !.update = EmptyDict,
                                      !.last_text = RememberTexts(@, e.alerts),
                                      !.slow_seen =
                                          IF ~snap.f.on_ground THEN FALSE
                                          ELSE @ \/ (phase = "taxi_in" /\ SlowOnGround(snap))]
                /\ UNCHANGED <<now, tracker, trk, sink, calls, rt, journal, speech>>

\* One iteration of _hazard_phrase_refresh_loop after its sleep: the
\* refresher raises, returns nothing, or returns new variants.
HazardPhraseRefresh ==
    /\ obs.calls < HazardMaxCalls
    /\ \E failed \in BOOLEAN, variants \in PhraseUpdates :
      IF failed
      THEN /\ journal' = <<[event |-> "hazard_phrase_refresh_failed"]>>
           /\ obs' = [obs EXCEPT !.step = "refresh_failed", !.calls = @ + 1, !.update = EmptyDict,
                                 !.alerts = << >>]
           /\ UNCHANGED <<now, tracker, trk, sink, calls, rt, hazard, latest, speech>>
      ELSE IF DOMAIN variants = {}
      THEN /\ journal' = << >>
           /\ obs' = [obs EXCEPT !.step = "refresh_none", !.calls = @ + 1, !.update = EmptyDict,
                                 !.alerts = << >>]
           /\ UNCHANGED <<now, tracker, trk, sink, calls, rt, hazard, latest, speech>>
      ELSE /\ hazard' = update_speech_variants(hazard, variants)
           /\ rt' = [rt EXCEPT !.hazard_profile.speech_variants =
                                   merge_speech_variants(@, variants)]
           /\ journal' = <<[event |-> "hazard_phrase_refresh_applied"]>>
           /\ obs' = [obs EXCEPT
                        !.step = "refresh_applied", !.calls = @ + 1,
                        !.update = variants,
                        !.alerts = << >>,
                        !.last_text =
                            [r \in {x \in DOMAIN @ :
                                      hazard'.speech_variants[x] = hazard.speech_variants[x]}
                               |-> @[r]]]
           /\ UNCHANGED <<now, tracker, trk, sink, calls, latest, speech>>

HazardNext == HazardEvaluate \/ HazardPhraseRefresh

SpecHazard == HazardInit /\ [][HazardNext]_vars

\* The step is one call of evaluate.
EvaluateStep == obs'.calls = obs.calls + 1 /\ obs'.step = "evaluate"

\* The lines of a variant list are non-blank and pairwise different once
\* normalized.
DistinctPhrases(lines) ==
    /\ Len(cleaned_phrases(lines)) = Len(lines)
    /\ \A i, j \in DOMAIN lines :
         i # j => normalize_phrase(lines[i]) # normalize_phrase(lines[j])

\* C12 as stated: when a rule whose variant list has k > 1 entries (here:
\* distinct ones, and the same list as at its previous firing) fires again,
\* its speak_text differs from the speak_text of its previous firing.
C12_AdjacentUtterancesDiffer ==
    [][EvaluateStep =>
         \A i \in DOMAIN obs'.alerts :
            LET rule == obs'.alerts[i].alert_id
                lines == DictGet(hazard.speech_variants, rule, << >>)
            IN  (/\ Len(lines) > 1
                 /\ DistinctPhrases(lines)
                 /\ rule \in DOMAIN obs.last_text)
                => obs'.alerts[i].speak_text # obs.last_text[rule]]_vars

\* The last call was evaluate and it returned an alert of this rule.
Alerted(rule) ==
    /\ obs.step = "evaluate"
    /\ \E i \in DOMAIN obs.alerts : obs.alerts[i].alert_id = rule

\* The snapshot is a takeoff ground-roll under the default thresholds:
\* throttle >= 0.65 and (IAS >= 35 kt or groundspeed >= 30 kt).
TakeoffGroundRoll(snap) ==
    /\ snap.f.on_ground
    /\ snap.f.throttle # None /\ snap.f.throttle[1] >= 65
    /\ \/ snap.f.ias # None /\ snap.f.ias[1] >= 35
       \/ snap.f.groundspeed # None /\ GsKtE6(snap) >= KtE6(30)

\* C13 as stated: under default thresholds evaluate returns no
\* excessive_taxi_speed alert for an on-ground takeoff ground-roll snapshot
\* in phase TAXI_OUT or TAXI_IN.
C13_NoTaxiAlertDuringGroundRoll ==
    (/\ obs.step = "evaluate"
     /\ obs.phase \in {"taxi_out", "taxi_in"}
     /\ hazard.thresholds = DefaultThresholds
     /\ TakeoffGroundRoll(latest[1]))
    => ~Alerted("excessive_taxi_speed")

\* C14 as stated: excessive_taxi_speed is returned in phase TAXI_IN only
\* after an on-ground TAXI_IN snapshot with groundspeed below 25 kt and IAS
\* below 30 kt was evaluated since the last airborne snapshot.
C14_TaxiInAlertOnlyAfterSlowSnapshot ==
    (Alerted("excessive_taxi_speed") /\ obs.phase = "taxi_in") => obs.slow_seen

AirborneRules ==
    {"stall_or_low_speed", "excessive_sink_low_alt", "high_bank_low_alt",
     "pull_up_now", "unstable_approach_fast_or_sink"}

\* C15: for a snapshot with on_ground = true evaluate returns no alert of an
\* airborne rule, and returns excessive_taxi_speed only in phase TAXI_OUT or
\* TAXI_IN.
C15_GroundAlertsOnlyTaxi ==
    (obs.step = "evaluate" /\ latest[1].f.on_ground) =>
        /\ \A i \in DOMAIN obs.alerts : obs.alerts[i].alert_id \notin AirborneRules
        /\ \A i \in DOMAIN obs.alerts : obs.alerts[i].alert_id = "excessive_taxi_speed"
        /\ obs.alerts # << >> => obs.phase \in {"taxi_out", "taxi_in"}

\* On the ground with the stall warning sounding, 2000 fpm down and 60
\* degrees of bank reported, in a taxi phase: nothing is returned; and an
\* over-limit taxi snapshot does alert.
C15_Witness ==
    /\ obs.step = "evaluate"
    /\ latest[1].f.on_ground
    /\ latest[1].f.stall_warning
    /\ obs.phase = "taxi_out"
    /\ obs.alerts = << >>
    /\ "stall_or_low_speed" \in hazard.enabled_rules

\* C16 as stated: a rule never fires on an absent field: an airborne snapshot
\* without stall warning and without indicated airspeed gives no
\* stall_or_low_speed alert, one without vertical speed gives no sink-rate
\* alert, and one without roll gives no bank alert.
C16_AbsentFieldNeverFires ==
    (obs.step = "evaluate" /\ ~latest[1].f.on_ground) =>
        /\ (latest[1].f.ias = None /\ ~latest[1].f.stall_warning)
              => ~Alerted("stall_or_low_speed")
        /\ latest[1].f.vs = None
              => ~Alerted("excessive_sink_low_alt") /\ ~Alerted("pull_up_now")
        /\ latest[1].f.roll = None => ~Alerted("high_bank_low_alt")

\* The value a comparison must use: the profile's when the key is present,
\* the literal default when it is missing.
ProfileValue(thresholds, name, literal) ==
    IF name \in DOMAIN thresholds THEN thresholds[name] ELSE literal

\* What the airborne rules must return for a snapshot, given the profile
\* and the field elevation, by rule id.
ExpectedAirborne(p, field, snap, rule) ==
    LET T(name, literal) == ProfileValue(p.thresholds, name, literal)
        agl == agl_ft(snap, field)
        ias == Or0(snap.f.ias)
        vs == Or0(snap.f.vs)
        low == agl # None
    IN  /\ rule \in p.enabled_rules
        /\ CASE rule = "stall_or_low_speed" ->
                  \/ snap.f.stall_warning
                  \/ /\ ias < T("low_airspeed_kt", 50)
                     /\ (agl = None \/ agl[1] > FtE5(T("low_airspeed_min_agl_ft", 100)))
             [] rule = "excessive_sink_low_alt" ->
                  /\ low /\ agl[1] < FtE5(T("excessive_sink_max_agl_ft", 1000))
                  /\ vs < T("excessive_sink_fpm", 0 - 1500)
             [] rule = "high_bank_low_alt" ->
                  /\ low /\ agl[1] < FtE5(T("high_bank_max_agl_ft", 1000))
                  /\ Abs(Or0(snap.f.roll)) > T("high_bank_deg", 45)
             [] rule = "pull_up_now" ->
                  /\ low /\ agl[1] < FtE5(T("pull_up_max_agl_ft", 300))
                  /\ vs < T("pull_up_fpm", 0 - 1000)

\* What excessive_taxi_speed must return in phase TAXI_OUT.
ExpectedTaxiOut(p, snap) ==
    LET T(name, literal) == ProfileValue(p.thresholds, name, literal)
        ias == Or0(snap.f.ias)
    IN  /\ "excessive_taxi_speed" \in p.enabled_rules
        /\ ~(/\ Or0(snap.f.throttle) >= T("taxi_takeoff_roll_throttle_ratio", 65)
             /\ \/ ias >= T("taxi_takeoff_roll_ias_kt", 35)
                \/ GsKtE6(snap) >= KtE6(T("taxi_takeoff_roll_gs_kt", 30)))
        /\ \/ GsKtE6(snap) > KtE6(T("max_taxi_speed_kt", 30))
           \/ ias > T("max_taxi_ias_kt", 35)

RefreshStep ==
    /\ obs'.calls = obs.calls + 1
    /\ obs'.step \in {"refresh_failed", "refresh_none", "refresh_applied"}

\* The variant lists of all rules outside the update are the same in both
\* dictionaries, rule by rule.
SameVariantsOutside(before, after, update) ==
    \A rule \in (DOMAIN before \cup DOMAIN after) \ DOMAIN update :
        /\ rule \in DOMAIN before
        /\ rule \in DOMAIN after
        /\ after[rule] = before[rule]

\* C18: a hazard-phrase refresh leaves enabled_rules and every threshold of
\* the monitor's profile and of the session's hazard profile unchanged,
\* changes speech variants only for rule ids present in the update, and a
\* refresh that fails or returns nothing leaves both profiles unchanged.
C18_RefreshTouchesOnlyUpdatedVariants ==
    [][RefreshStep =>
         /\ hazard'.enabled_rules = hazard.enabled_rules
         /\ hazard'.thresholds = hazard.thresholds
         /\ rt'.hazard_profile.enabled_rules = rt.hazard_profile.enabled_rules
         /\ rt'.hazard_profile.thresholds = rt.hazard_profile.thresholds
         /\ SameVariantsOutside(hazard.speech_variants, hazard'.speech_variants,
                                obs'.update)
         /\ SameVariantsOutside(rt.hazard_profile.speech_variants,
                                rt'.hazard_profile.speech_variants, obs'.update)
         /\ obs'.step # "refresh_applied" =>
              /\ ProfileOf(hazard') = ProfileOf(hazard)
              /\ rt'.hazard_profile = rt.hazard_profile]_vars

\* A refresh was applied under the turboprop profile: the monitor's lines for
\* the updated rule are the new ones, another rule keeps the default lines
\* and the thresholds are the turboprop ones.
C18_Witness ==
    /\ obs.step = "refresh_applied"
    /\ DOMAIN obs.update = {"pull_up_now"}
    /\ hazard.speech_variants["pull_up_now"] = <<"hold.", "slow.">>
    /\ hazard.speech_variants["stall_or_low_speed"] = DefaultVariants["stall_or_low_speed"]
    /\ rt.hazard_profile.speech_variants["pull_up_now"] = <<"hold.", "slow.">>
    /\ hazard.thresholds = TurbopropProfile.thresholds
    /\ rt.hazard_profile.thresholds = TurbopropProfile.thresholds

----------------------------------------------------------------------------
(* CfiRuntime.start: the two _start_with_retry calls, telemetry first and  *)
(* then speech. rt.pc is "call" before a starter call, "sleep" during the  *)
(* wait between attempts, "started" once both calls returned and "error"   *)
(* once RuntimeError left _start_with_retry. obs.starts counts the starter *)
(* calls per component, apart from the loop's own attempt counter.         *)

xplane_retry_sec == 3
MaxRetries == 3
StartMaxCalls == 8

StartLabels == <<"X-Plane UDP", "X-Plane MCP speech">>

StartObs0 ==
    [step |-> "init", ok |-> FALSE,
     starts |-> [l \in {StartLabels[1], StartLabels[2]} |-> 0]]

StartInit ==
    /\ now = StartEpoch
    /\ tracker = TrackerState0
    /\ trk = Trk0
    /\ sink = Sink0(FALSE)
    /\ calls = << >>
    /\ hazard = Hazard0
    /\ latest = None
    /\ journal = << >>
    /\ speech = << >>
    /\ \E n \in 0..MaxRetries :
         rt = [pc |-> "call", component |-> 1, attempt |-> 0, max_attempts |-> n,
               started |-> {}]
    /\ obs = StartObs0

\* The test that ends the retries after a failed attempt.
GivesUpLate(max_attempts, attempt) == max_attempts > 0 /\ attempt > max_attempts
GivesUp(max_attempts, attempt) == max_attempts > 0 /\ attempt >= max_attempts

\* One pass of the while loop up to its return, raise or sleep: attempt += 1,
\* await starter(), which returns or raises.
StartAttempt ==
    /\ rt.pc = "call"
    /\ rt.attempt < StartMaxCalls
    /\ \E ok \in BOOLEAN :
         LET label == StartLabels[rt.component]
             attempt == rt.attempt + 1
         IN  /\ obs' = [obs EXCEPT !.step = "attempt", !.ok = ok,
                                   !.starts[label] = @ + 1]
             /\ IF ok
                THEN /\ rt' = [rt EXCEPT
                                 !.started = @ \cup {label},
                                 !.attempt = IF rt.component = 1 THEN 0 ELSE attempt,
                                 !.component = IF rt.component = 1 THEN 2 ELSE @,
                                 !.pc = IF rt.component = 1 THEN "call" ELSE "started"]
                     /\ journal' = << >>
                ELSE /\ journal' = <<[event |-> "startup_retry", component |-> label,
                                      attempt |-> attempt]>>
                     /\ rt' = [rt EXCEPT
                                 !.attempt = attempt,
                                 !.pc = IF GivesUp(rt.max_attempts, attempt)
                                        THEN "error" ELSE "sleep"]
    /\ UNCHANGED <<now, tracker, trk, sink, calls, hazard, latest, speech>>

\* await asyncio.sleep(xplane_retry_sec), then the next pass.
StartSleep ==
    /\ rt.pc = "sleep"
    /\ now' = now + xplane_retry_sec
    /\ rt' = [rt EXCEPT !.pc = "call"]
    /\ obs' = [obs EXCEPT !.step = "sleep"]
    /\ journal' = << >>
    /\ UNCHANGED <<tracker, trk, sink, calls, hazard, latest, speech>>

StartNext == StartAttempt \/ StartSleep

SpecStart == StartInit /\ [][StartNext]_vars

\* The component whose starter the loop is calling, or called last.
CurrentLabel == StartLabels[rt.component]

\* Every starter call of the current component has failed so far.
AlwaysFailedSoFar == CurrentLabel \notin rt.started

\* C19: with max retries N > 0 and a starter that always fails the starter is
\* called exactly N times and then _start_with_retry fails; with N = 0 it
\* never fails and every failed attempt is followed by the wait for the next
\* one; once an attempt succeeds the starter is not called again.
C19_StartRetryPolicy ==
    /\ [](/\ rt.pc = "error" =>
                /\ rt.max_attempts > 0
                /\ AlwaysFailedSoFar
                /\ obs.starts[CurrentLabel] = rt.max_attempts
          /\ (rt.max_attempts > 0 /\ AlwaysFailedSoFar
                /\ obs.starts[CurrentLabel] = rt.max_attempts) => rt.pc = "error"
          /\ rt.max_attempts > 0 =>
                \A l \in DOMAIN obs.starts : obs.starts[l] <= rt.max_attempts
          /\ rt.max_attempts = 0 => rt.pc # "error")
    /\ [][/\ (rt.max_attempts = 0 /\ obs'.step = "attempt" /\ ~obs'.ok)
               => (rt'.pc = "sleep" /\ rt'.component = rt.component)
          /\ rt.pc = "sleep" => (rt'.pc = "call" /\ obs'.starts = obs.starts)
          /\ \A l \in DOMAIN obs.starts :
               /\ l \in rt.started => obs'.starts[l] = obs.starts[l]
               /\ (obs'.starts[l] # obs.starts[l] /\ obs'.ok) => l \in rt'.started]_vars

\* With N = 3 the telemetry starter succeeded on its second call and the
\* speech starter failed three times: start() has failed, after 2 and 3
\* calls.
C19_Witness ==
    /\ rt.pc = "error"
    /\ rt.max_attempts = 3
    /\ obs.starts[StartLabels[1]] = 2
    /\ obs.starts[StartLabels[2]] = 3
    /\ StartLabels[1] \in rt.started

\* With N = 0 the speech starter has failed StartMaxCalls times and the loop
\* is waiting for the next attempt.
C19_WitnessUnbounded ==
    /\ rt.max_attempts = 0
    /\ rt.pc = "sleep"
    /\ obs.starts[StartLabels[2]] = StartMaxCalls

----------------------------------------------------------------------------
(* Specification SpecMuted: the tick loop of SpecRuntime started with      *)
(* --no-nonurgent-speak, over telemetry in which one snapshot can raise    *)
(* several alerts at once (a steep low dive after the field elevation has  *)
(* been learnt on the ground).                                             *)

MutedKinds == {"parked", "stall", "dive"}

MutedInit ==
    /\ now = StartEpoch
    /\ tracker = TrackerState0
    /\ trk = Trk0
    /\ calls = EmptyDict
    /\ hazard = Hazard0
    /\ latest = None
    /\ journal = << >>
    /\ speech = << >>
    /\ obs = Obs0
    /\ rt = Runtime0(FALSE, RuntimeReviewTick, RuntimeDuration)
    /\ sink = Sink0(FALSE)

MutedTelemetryPublish ==
    /\ InLoop
    /\ IF latest = None THEN TRUE ELSE latest[1].timestamp_sec < now
    /\ \E kind \in MutedKinds : latest' = Some(Stamp(kind, now))
    /\ journal' = << >>
    /\ speech' = << >>
    /\ obs' = [obs EXCEPT !.step = "TelemetryPublish"]
    /\ UNCHANGED <<now, tracker, trk, sink, calls, rt, hazard>>

MutedNext ==
    \/ MutedTelemetryPublish
    \/ Tick
    \/ LoopIteration
    \/ ReviewReturn
    \/ DebriefReturn
    \/ RunEnd

SpecMuted == MutedInit /\ [][MutedNext]_vars

\* The keys of the speak_urgent calls of a step, in call order.
UrgentKeys(calls_of_step) ==
    LET urgent == SelectSeq(calls_of_step, LAMBDA c : c.channel = "urgent")
    IN  [i \in DOMAIN urgent |-> urgent[i].key]

\* The step made no speak_nonurgent call and no priority-fallback call.
NoReviewSpeech(calls_of_step) ==
    \A i \in DOMAIN calls_of_step :
        /\ calls_of_step[i].channel # "nonurgent"
        /\ calls_of_step[i].key \notin {"priority_review_" \o p : p \in Phases}

\* The alerts the monitor returns for the snapshot processed by the step.
AlertsOfStep == evaluate(hazard, latest[1], rt'.phase_state).alerts

\* C20 as stated: with non-urgent speaking disabled no step calls
\* speak_nonurgent or speaks a review through the priority fallback, and the
\* step that processes a snapshot passes every alert the monitor returned
\* for it to speak_urgent.
C20_MutedButEveryAlertSpoken ==
    [][~rt.nonurgent_speak_enabled =>
         /\ NoReviewSpeech(speech')
         /\ obs'.step = "ProcessSnapshot" => UrgentKeys(speech') = AlertsOfStep]_vars

\* What does hold: nothing is spoken on the non-urgent channel or through
\* the fallback, and the alerts are passed to speak_urgent in order, all of
\* them unless one of the calls raised, which ends the alert loop.
C20_MutedAndAlertsSpokenUntilRaise ==
    [][~rt.nonurgent_speak_enabled =>
         /\ NoReviewSpeech(speech')
         /\ obs'.step = "ProcessSnapshot" =>
              LET keys == UrgentKeys(speech')
                  n == Len(keys)
              IN  /\ n <= Len(AlertsOfStep)
                  /\ keys = SubSeq(AlertsOfStep, 1, n)
                  /\ n < Len(AlertsOfStep) => speech'[n].result = "error"
                  /\ rt'.exc = "none" => n = Len(AlertsOfStep)]_vars

\* A dive raised three alerts and all three were passed to speak_urgent.
C20_ThreeAlertsSpoken ==
    /\ ~rt.nonurgent_speak_enabled
    /\ obs.step = "ProcessSnapshot"
    /\ latest[1].kind = "dive"
    /\ Len(speech) = 3
    /\ \A i \in 1..3 : speech[i].channel = "urgent"

----------------------------------------------------------------------------
(* RuleEngine (rules.py): phase detection and shutdown confirmation.       *)
(* rt is RuleEngineState as far as _update_maneuver_trackers,              *)
(* _detect_phase and _update_shutdown_state read or write it; the findings *)
(* of _evaluate_rules and the references kept only for them (stall event,  *)
(* climb-out and level-segment references, field elevation) are read by    *)
(* none of the three.  Groundspeed is in tenths of a knot; an absent field *)
(* is None.                                                                *)

engine_shutdown_hold_sec == 15
STEEP_TURN_SUSTAIN_SEC == 12
SLOW_FLIGHT_SUSTAIN_SEC == 12

\* MonitorSample, as test_rules.make_sample builds it.
RuleSampleOf(kind) ==
    LET parked == [on_ground |-> TRUE, agl_ft |-> Some(0), groundspeed_kt |-> Some(5),
                   indicated_airspeed_kt |-> Some(0), vertical_speed_fpm |-> Some(0),
                   bank_deg |-> Some(0), flaps_ratio |-> Some(0),
                   engine_running |-> Some(<<0>>)]
    IN  CASE kind = "climbing" ->
               [parked EXCEPT !.on_ground = FALSE, !.agl_ft = Some(1000),
                              !.groundspeed_kt = Some(1000),
                              !.indicated_airspeed_kt = Some(95),
                              !.vertical_speed_fpm = Some(500),
                              !.engine_running = Some(<<1>>)]
          [] kind = "steep_turn" ->
               [parked EXCEPT !.on_ground = FALSE, !.agl_ft = Some(2000),
                              !.groundspeed_kt = Some(1000),
                              !.indicated_airspeed_kt = Some(95),
                              !.bank_deg = Some(45),
                              !.engine_running = Some(<<1>>)]
          [] kind = "rollout" ->
               [parked EXCEPT !.groundspeed_kt = Some(300),
                              !.engine_running = Some(<<1>>)]
          [] kind = "stopped_off" -> parked
          [] kind = "stopped_on" -> [parked EXCEPT !.engine_running = Some(<<1>>)]
          [] kind = "creeping_off" -> [parked EXCEPT !.groundspeed_kt = Some(20)]
          [] kind = "no_groundspeed_off" -> [parked EXCEPT !.groundspeed_kt = None]
          [] kind = "no_engine_data" -> [parked EXCEPT !.engine_running = None]
          [] kind = "twin_one_off" -> [parked EXCEPT !.engine_running = Some(<<0, 1>>)]

RuleSample(kind, t) == [kind |-> kind, timestamp_epoch |-> t, f |-> RuleSampleOf(kind)]

RuleEngineState0 ==
    [phase |-> "pre_flight", had_airborne |-> FALSE, shutdown_confirmed |-> FALSE,
     previous_on_ground |-> None,
     steep_turn_candidate_since |-> None, slow_flight_candidate_since |-> None,
     shutdown_candidate_since |-> None]

\* _update_maneuver_trackers
update_maneuver_trackers(st, sample) ==
    LET f == sample.f
        bank == Abs(Or0(f.bank_deg))
        vs == Abs(Or0(f.vertical_speed_fpm))
        steep == /\ ~f.on_ground
                 /\ f.agl_ft # None /\ f.agl_ft[1] > 1500
                 /\ 35 <= bank /\ bank <= 60
        slow == /\ ~f.on_ground
                /\ f.indicated_airspeed_kt # None
                /\ 40 <= f.indicated_airspeed_kt[1] /\ f.indicated_airspeed_kt[1] <= 70
                /\ f.flaps_ratio # None /\ f.flaps_ratio[1] > 20
                /\ vs < 300
    IN  [st EXCEPT
           !.steep_turn_candidate_since =
               IF steep THEN (IF @ = None THEN Some(sample.timestamp_epoch) ELSE @)
               ELSE None,
           !.slow_flight_candidate_since =
               IF slow THEN (IF @ = None THEN Some(sample.timestamp_epoch) ELSE @)
               ELSE None]

\* _is_steep_turn_active / _is_slow_flight_active
is_sustained(since, timestamp, sustain_sec) ==
    since # None /\ timestamp - since[1] >= sustain_sec

\* _detect_phase: the phase, and the state with the had_airborne latch.
detect_phase(st, sample) ==
    LET f == sample.f
        groundspeed == Or0(f.groundspeed_kt)
        ias == Or0(f.indicated_airspeed_kt)
        vs == Or0(f.vertical_speed_fpm)
        maneuver ==
            \/ is_sustained(st.steep_turn_candidate_since, sample.timestamp_epoch,
                            STEEP_TURN_SUSTAIN_SEC)
            \/ is_sustained(st.slow_flight_candidate_since, sample.timestamp_epoch,
                            SLOW_FLIGHT_SUSTAIN_SEC)
    IN  IF st.shutdown_confirmed THEN [st EXCEPT !.phase = "shutdown"]
        ELSE IF st.had_airborne
        THEN [st EXCEPT !.phase =
                 IF f.on_ground
                 THEN (IF groundspeed > 150 THEN "landing_rollout" ELSE "taxi_in")
                 ELSE IF maneuver THEN "maneuver"
                 ELSE IF f.agl_ft # None /\ f.agl_ft[1] < 800 /\ vs < 0 - 200
                 THEN "approach"
                 ELSE IF vs > 300 THEN "climb"
                 ELSE IF vs < 0 - 300 THEN "descent"
                 ELSE "cruise"]
        ELSE IF ~f.on_ground
        THEN [st EXCEPT !.had_airborne = TRUE, !.phase = "climb"]
        ELSE [st EXCEPT !.phase =
                 IF ias >= 40 \/ groundspeed >= 300 THEN "takeoff_roll"
                 ELSE IF groundspeed >= 20 THEN "taxi_out"
                 ELSE "pre_flight"]

\* The dwell test of _update_shutdown_state.
HoldElapsedAlways(elapsed) == TRUE
HoldElapsed(elapsed) == elapsed >= engine_shutdown_hold_sec

\* _update_shutdown_state
update_shutdown_state(st, sample) ==
    LET f == sample.f
        stationary == Or0(f.groundspeed_kt) < 20
        engines_off == /\ f.engine_running # None
                       /\ \A i \in DOMAIN f.engine_running[1] : f.engine_running[1][i] = 0
        conditions_met == st.had_airborne /\ f.on_ground /\ stationary /\ engines_off
    IN  IF st.shutdown_confirmed THEN st
        ELSE IF ~conditions_met THEN [st EXCEPT !.shutdown_candidate_since = None]
        ELSE IF st.shutdown_candidate_since = None
        THEN [st EXCEPT !.shutdown_candidate_since = Some(sample.timestamp_epoch)]
        ELSE IF HoldElapsed(sample.timestamp_epoch - st.shutdown_candidate_since[1])
        THEN [st EXCEPT !.shutdown_confirmed = TRUE]
        ELSE st

\* RuleEngine.update
rule_engine_update(st, sample) ==
    LET st1 == update_shutdown_state(
                   detect_phase(update_maneuver_trackers(st, sample), sample), sample)
    IN  [st1 EXCEPT !.phase = IF st1.shutdown_confirmed THEN "shutdown" ELSE @,
                    !.previous_on_ground = Some(sample.f.on_ground)]

----------------------------------------------------------------------------
(* Specification SpecRules: the rule engine fed any sample sequence with    *)
(* non-decreasing timestamps.                                               *)

RuleKinds ==
    {"climbing", "steep_turn", "rollout", "stopped_off", "stopped_on", "creeping_off",
     "no_groundspeed_off", "no_engine_data", "twin_one_off"}
RuleSteps == {0, 7, 8}
RulesMaxTime == 31

\* obs.held_since: the timestamp of the first sample of the current run of
\* samples on which the aircraft had been airborne, was on the ground with a
\* groundspeed below 2 kt and had every engine reported not running; None
\* when the last sample was not such a sample.
RulesObs0 == [step |-> "init", held_since |-> None]

ShutdownConditions(st, sample) ==
    /\ st.had_airborne
    /\ sample.f.on_ground
    /\ sample.f.groundspeed_kt # None /\ sample.f.groundspeed_kt[1] < 20
    /\ sample.f.engine_running # None
    /\ \A i \in DOMAIN sample.f.engine_running[1] : sample.f.engine_running[1][i] = 0

RulesInit ==
    /\ now = 0
    /\ tracker = TrackerState0
    /\ trk = Trk0
    /\ sink = Sink0(FALSE)
    /\ calls = << >>
    /\ hazard = Hazard0
    /\ latest = None
    /\ journal = << >>
    /\ speech = << >>
    /\ rt = RuleEngineState0
    /\ obs = RulesObs0

RulesUpdate ==
    \E kind \in RuleKinds, dt \in RuleSteps :
        /\ now + dt <= RulesMaxTime
        /\ LET sample == RuleSample(kind, now + dt)
               st == rule_engine_update(rt, sample)
           IN  /\ rt' = st
               /\ latest' = Some(sample)
               /\ obs' = [step |-> "update",
                          held_since |->
                              IF ~ShutdownConditions(st, sample) THEN None
                              ELSE IF obs.held_since = None THEN Some(now + dt)
                              ELSE obs.held_since]
        /\ now' = now + dt
        /\ UNCHANGED <<tracker, trk, sink, calls, hazard, journal, speech>>

RulesNext == RulesUpdate

SpecRules == RulesInit /\ [][RulesNext]_vars

\* C21 as stated: shutdown_confirmed becomes true on a sample only if
\* had_airborne, on_ground, groundspeed < 2 kt and all engines not running
\* held on every sample since one at least engine_shutdown_hold_sec earlier;
\* once confirmed it stays confirmed and the phase is SHUTDOWN after every
\* later update.
C21_ShutdownOnlyAfterHeldDwell ==
    [][/\ (~rt.shutdown_confirmed /\ rt'.shutdown_confirmed) =>
             /\ obs'.held_since # None
             /\ now' - obs'.held_since[1] >= engine_shutdown_hold_sec
       /\ rt'.shutdown_confirmed => rt'.phase = "shutdown"
       /\ rt.shutdown_confirmed => rt'.shutdown_confirmed]_vars

\* What does hold: the same with an absent groundspeed counted as zero,
\* as _update_shutdown_state reads it.
C21_ShutdownAfterDwellAbsentAsZero ==
    [][/\ (~rt.shutdown_confirmed /\ rt'.shutdown_confirmed) =>
             /\ rt.shutdown_candidate_since # None
             /\ now' - rt.shutdown_candidate_since[1] >= engine_shutdown_hold_sec
             /\ obs'.held_since # None \/ latest'[1].f.groundspeed_kt = None
       /\ (obs.held_since = None /\ latest # None /\ latest[1].f.groundspeed_kt # None)
             => ~rt'.shutdown_confirmed \/ rt.shutdown_confirmed
       /\ rt'.shutdown_confirmed => rt'.phase = "shutdown"
       /\ rt.shutdown_confirmed => rt'.shutdown_confirmed]_vars

----------------------------------------------------------------------------
(* xplane_udp.py: the RREF wire format.  A packet is a sequence of bytes   *)
(* (0..255).  A float is the dyadic rational m * 2^e, written [m, e] with  *)
(* m odd, or m = 0 and e = 0; the packed form is its IEEE-754 binary32.    *)

RREF_RESPONSE_PREFIX == <<82, 82, 69, 70, 44>>
RREF_REQUEST_HEADER == <<82, 82, 69, 70, 0>>

\* (key, dataref) of DATAREF_BY_KEY in order; INDEX_BY_KEY[key] is the position.
DATAREF_KEYS ==
    <<"latitude_deg", "longitude_deg", "elevation_m", "groundspeed_m_s",
      "indicated_airspeed_kt", "heading_true_deg", "magnetic_heading_deg",
      "vertical_speed_fpm", "roll_deg", "pitch_deg", "throttle_ratio",
      "engine_running", "engine_rpm", "flap_ratio", "parking_brake_ratio",
      "on_ground", "stall_warning", "com1_hz">>

Pow2(n) == 2 ^ n

\* struct.pack("<i", v) for v in the int32 range: two's complement, low byte first.
pack_i32_big_endian(v) ==
    LET w == IF v < 0 THEN (v + 2147483647) + 1 ELSE v
    IN  <<(w \div 16777216) + (IF v < 0 THEN 128 ELSE 0), (w \div 65536) % 256,
          (w \div 256) % 256, w % 256>>
pack_i32(v) ==
    LET w == IF v < 0 THEN (v + 2147483647) + 1 ELSE v
    IN  <<w % 256, (w \div 256) % 256, (w \div 65536) % 256,
          (w \div 16777216) + (IF v < 0 THEN 128 ELSE 0)>>

\* struct.unpack("<i", b)
unpack_i32(b) ==
    LET w == b[1] + 256 * b[2] + 65536 * b[3] + 16777216 * (b[4] % 128)
    IN  IF b[4] >= 128 THEN (w - 2147483647) - 1 ELSE w

\* The number of bits of n > 0.
RECURSIVE BitLength(_)
BitLength(n) == IF n = 0 THEN 0 ELSE 1 + BitLength(n \div 2)

\* m * 2^e with the factors of two moved out of m.
RECURSIVE Dyadic(_, _)
Dyadic(m, e) ==
    IF m = 0 THEN [m |-> 0, e |-> 0]
    ELSE IF m % 2 = 0 THEN Dyadic(m \div 2, e + 1)
    ELSE [m |-> m, e |-> e]

\* The 24-bit significand and the exponent struct.pack("<f", x) gives the
\* dyadic x # 0: exact when |m| has at most 24 bits, else rounded to the
\* nearest binary32 value, ties to even.
f32_round(x) ==
    LET a == Abs(x.m)
        k == BitLength(a)
    IN  IF k <= 24 THEN [sig |-> a * Pow2(24 - k), ex |-> x.e + (k - 1)]
        ELSE LET unit == Pow2(k - 24)
                 q == a \div unit
                 r == a % unit
                 n == IF 2 * r > unit \/ (2 * r = unit /\ q % 2 = 1) THEN q + 1 ELSE q
             IN  IF n = 16777216 THEN [sig |-> 8388608, ex |-> x.e + k]
                 ELSE [sig |-> n, ex |-> x.e + (k - 1)]

\* struct.pack("<f", x) for x = [m, e] whose binary32 is zero or normal.
pack_f32(x) ==
    IF x.m = 0 THEN <<0, 0, 0, 0>>
    ELSE LET exponent == f32_round(x).ex + 127
             fraction == f32_round(x).sig - 8388608
         IN  <<fraction % 256, (fraction \div 256) % 256,
               ((fraction \div 65536) % 128) + 128 * (exponent % 2),
               (exponent \div 2) + (IF x.m < 0 THEN 128 ELSE 0)>>

\* struct.unpack("<f", b) for the bytes of zero or of a normal value.
unpack_f32(b) ==
    LET exponent == 2 * (b[4] % 128) + (b[3] \div 128)
        fraction == b[1] + 256 * b[2] + 65536 * (b[3] % 128)
        d == Dyadic(8388608 + fraction, exponent - 150)
    IN  IF exponent = 0 /\ fraction = 0 THEN [m |-> 0, e |-> 0]
        ELSE IF b[4] >= 128 THEN [d EXCEPT !.m = 0 - d.m] ELSE d

\* dataref.encode("ascii", errors="ignore"): the characters above 127 dropped.
encode_ascii(name) == SelectSeq(name, LAMBDA c : c < 128)

\* bytes.ljust(width, b"\x00")
ljust0(b, width) ==
    IF Len(b) >= width THEN b ELSE b \o [i \in 1..(width - Len(b)) |-> 0]

\* build_rref_request_packet(freq_hz, index, dataref); dataref is a sequence
\* of character codes.
build_rref_request_packet(freq_hz, index, dataref) ==
    LET encoded == SubSeq(encode_ascii(dataref), 1, Min2(399, Len(encode_ascii(dataref))))
        payload == ljust0(encoded \o <<0>>, 400)
    IN  RREF_REQUEST_HEADER \o pack_i32(freq_hz) \o pack_i32(index) \o payload

\* struct.unpack("<5sii400s", packet)
unpack_rref_request(packet) ==
    [header |-> SubSeq(packet, 1, 5),
     freq |-> unpack_i32(SubSeq(packet, 6, 9)),
     index |-> unpack_i32(SubSeq(packet, 10, 13)),
     raw_dataref |-> SubSeq(packet, 14, 413)]

\* The loop of parse_rref_datagram over the first n records of body.
RECURSIVE parse_records(_, _)
parse_records(body, n) ==
    IF n = 0 THEN EmptyDict
    ELSE LET chunk == SubSeq(body, 8 * (n - 1) + 1, 8 * n)
         IN  DictPut(parse_records(body, n - 1),
                     unpack_i32(SubSeq(chunk, 1, 4)), unpack_f32(SubSeq(chunk, 5, 8)))

\* payload.startswith(RREF_RESPONSE_PREFIX)
StartsWithAlways(payload, prefix) == TRUE
StartsWith(payload, prefix) ==
    Len(payload) >= Len(prefix) /\ SubSeq(payload, 1, Len(prefix)) = prefix

\* parse_rref_datagram(payload)
parse_rref_datagram(payload) ==
    IF ~StartsWith(payload, RREF_RESPONSE_PREFIX) THEN EmptyDict
    ELSE LET body == SubSeq(payload, Len(RREF_RESPONSE_PREFIX) + 1, Len(payload))
         IN  parse_records(body, Len(body) \div 8)

----------------------------------------------------------------------------
(* xplane_udp.py: XPlaneUdpClient.  rt holds the client: the fields of     *)
(* the object, the states of the two child tasks the fields refer to, the  *)
(* rate last sent for each subscription index, and the number of sockets   *)
(* of the client the operating system holds open.  A task that no field    *)
(* refers to any more is not followed.                                      *)

xplane_rref_hz == 10
MinBufferSeconds == 30
UdpMaxCalls == 4
UdpMaxTime == 2

DatarefIndexes == 1..Len(DATAREF_KEYS)

\* x >= 0.5 for the dyadic x
AtLeastHalf(x) == x.m > 0 /\ x.e + BitLength(x.m) >= 0

\* int(round(x)) for the dyadic x: to the nearest integer, ties to even.
RoundDyadic(x) ==
    IF x.e >= 0 THEN x.m * Pow2(x.e)
    ELSE LET unit == Pow2(0 - x.e)
             a == Abs(x.m)
             q == a \div unit
             r == a % unit
             n == IF 2 * r > unit \/ (2 * r = unit /\ q % 2 = 1) THEN q + 1 ELSE q
         IN  IF x.m < 0 THEN 0 - n ELSE n

\* XPlaneUdpClient._build_snapshot(timestamp_sec)
build_snapshot(values, timestamp_sec) ==
    LET f(name) == IF name \in DOMAIN values THEN Some(values[name]) ELSE None
        half(name) == name \in DOMAIN values /\ AtLeastHalf(values[name])
    IN  [timestamp_sec |-> timestamp_sec,
         fields |-> [name \in {DATAREF_KEYS[i] : i \in DatarefIndexes}
                            \ {"engine_running", "on_ground", "stall_warning", "com1_hz"}
                        |-> f(name)],
         engine_running |-> IF "engine_running" \in DOMAIN values
                            THEN Some(half("engine_running")) ELSE None,
         com1_hz |-> IF "com1_hz" \in DOMAIN values
                     THEN Some(RoundDyadic(values["com1_hz"])) ELSE None,
         on_ground |-> half("on_ground"),
         stall_warning |-> half("stall_warning")]

\* deque(maxlen=...).append(x); the smallest maxlen the constructor computes.
buffer_maxlen == MinBufferSeconds * 1 * 2
deque_append(q, x) ==
    IF Len(q) >= buffer_maxlen THEN Tail(q) \o <<x>> ELSE q \o <<x>>

\* XPlaneUdpClient.__init__
UdpClient0 ==
    [running |-> FALSE, socket |-> FALSE, xplane_addr |-> FALSE,
     rx_task |-> FALSE, resubscribe_task |-> FALSE,
     rx_state |-> "none", resubscribe_state |-> "none",
     values |-> EmptyDict, latest |-> None, snapshots |-> << >>,
     sent |-> [i \in DatarefIndexes |-> -1], open_sockets |-> 0]

\* The index whose subscription request fails when a start attempt fails
\* while sending.
SendFailsAt == 2

UdpObs0 ==
    [step |-> "init", count |-> 0, ever_started |-> FALSE, was_running |-> FALSE,
     outcome |-> "none", datagram |-> << >>, before |-> UdpClient0]

\* One packed record of a response datagram.
RrefRecord(index, value) == pack_i32(index) \o pack_f32(value)

\* The datagrams the socket delivers.
UdpDatagrams ==
    { <<82, 82>>,
      RREF_RESPONSE_PREFIX,
      RREF_RESPONSE_PREFIX \o <<5, 0, 0, 0, 0, 0, 247>>,
      RREF_REQUEST_HEADER \o RrefRecord(5, [m |-> 247, e |-> -1]),
      <<66, 69, 67, 78, 0>> \o RrefRecord(16, [m |-> 1, e |-> 0]),
      RREF_RESPONSE_PREFIX \o RrefRecord(5, [m |-> 247, e |-> -1]),
      RREF_RESPONSE_PREFIX \o RrefRecord(16, [m |-> 1, e |-> 0])
                           \o RrefRecord(8, [m |-> -17, e |-> -2]),
      RREF_RESPONSE_PREFIX \o RrefRecord(5, [m |-> 1, e |-> 0])
                           \o RrefRecord(5, [m |-> 1, e |-> 1]) \o <<9, 9, 9>>,
      RREF_RESPONSE_PREFIX \o RrefRecord(99, [m |-> 1, e |-> 0]) }

\* XPlaneUdpClient._subscribe_all(freq_hz): the rate last sent per index.
subscribe_all(c, freq_hz) ==
    IF ~c.socket \/ ~c.xplane_addr THEN c.sent
    ELSE [i \in DatarefIndexes |->
            unpack_rref_request(build_rref_request_packet(freq_hz, i, << >>)).freq]

\* The body of the receive loop for one datagram.
RECURSIVE store_values(_, _, _)
store_values(values, by_index, indexes) ==
    IF indexes = {} THEN values
    ELSE LET idx == CHOOSE i \in indexes : TRUE
             rest == store_values(values, by_index, indexes \ {idx})
         IN  IF idx \in DatarefIndexes
             THEN DictPut(rest, DATAREF_KEYS[idx], by_index[idx])
             ELSE rest

receive_datagram(c, payload, timestamp) ==
    LET values_by_index == parse_rref_datagram(payload)
    IN  IF DOMAIN values_by_index = {} THEN c
        ELSE LET values == store_values(c.values, values_by_index, DOMAIN values_by_index)
                 snapshot == build_snapshot(values, timestamp)
             IN  [c EXCEPT !.values = values, !.latest = Some(snapshot),
                           !.snapshots = deque_append(@, snapshot)]

\* task.cancel() then "with suppress(Exception): await task": the state the
\* task is left in, and whether the await raised out of the suppress block.
\* contextlib.suppress(Exception) does not catch asyncio.CancelledError.
cancel_task(state) == IF state = "pending" THEN "cancelled" ELSE state
await_raises(state) == cancel_task(state) = "cancelled"

\* XPlaneUdpClient.stop()
udp_stop(c) ==
    LET c1 == [c EXCEPT !.running = FALSE, !.sent = subscribe_all(c, 0)]
        c2 == IF c1.rx_task THEN [c1 EXCEPT !.rx_state = cancel_task(@)] ELSE c1
        raised2 == c1.rx_task /\ await_raises(c1.rx_state)
        c3 == IF c2.resubscribe_task
              THEN [c2 EXCEPT !.resubscribe_state = cancel_task(@)] ELSE c2
        raised3 == c2.resubscribe_task /\ await_raises(c2.resubscribe_state)
        c4 == [c3 EXCEPT !.rx_task = FALSE, !.resubscribe_task = FALSE,
                         !.open_sockets = IF c3.socket THEN @ - 1 ELSE @,
                         !.socket = FALSE]
    IN  IF raised2 THEN [client |-> c2, outcome |-> "raised"]
        ELSE IF raised3 THEN [client |-> c3, outcome |-> "raised"]
        ELSE [client |-> c4, outcome |-> "returned"]

UdpInit ==
    /\ now = 0
    /\ tracker = TrackerState0
    /\ trk = << >>
    /\ sink = << >>
    /\ calls = << >>
    /\ rt = UdpClient0
    /\ hazard = << >>
    /\ latest = << >>
    /\ journal = << >>
    /\ speech = << >>
    /\ obs = UdpObs0

UdpFrame == UNCHANGED <<tracker, trk, sink, calls, hazard, latest, journal, speech>>

\* _subscribe_all(freq_hz) when the sendto for index failed_at raises: the
\* requests before it have gone out.
subscribe_until(c, freq_hz, failed_at) ==
    [i \in DatarefIndexes |->
        IF i < failed_at THEN subscribe_all(c, freq_hz)[i] ELSE c.sent[i]]

\* XPlaneUdpClient.start(); how resolving the endpoint, binding and the
\* first round of subscriptions end is the environment's choice.
UdpStart ==
    /\ obs.count < UdpMaxCalls
    /\ \E result \in {"ok", "unresolved", "bind_error", "send_error"} :
         /\ rt' = IF rt.running \/ result = "unresolved" THEN rt
                  ELSE IF result = "bind_error" THEN [rt EXCEPT !.xplane_addr = TRUE]
                  ELSE LET c == [rt EXCEPT !.xplane_addr = TRUE, !.socket = TRUE,
                                           !.open_sockets = @ + 1, !.running = TRUE]
                       IN  IF result = "send_error"
                           THEN [c EXCEPT !.sent =
                                     subscribe_until(c, xplane_rref_hz, SendFailsAt)]
                           ELSE [c EXCEPT !.sent = subscribe_all(c, xplane_rref_hz),
                                          !.rx_task = TRUE, !.rx_state = "pending",
                                          !.resubscribe_task = TRUE,
                                          !.resubscribe_state = "pending"]
         /\ obs' = [obs EXCEPT !.step = "start", !.count = @ + 1,
                               !.ever_started = @ \/ rt'.running,
                               !.was_running = rt.running,
                               !.outcome = IF rt.running \/ result = "ok"
                                           THEN "returned" ELSE "raised",
                               !.datagram = << >>, !.before = rt]
    /\ UNCHANGED now
    /\ UdpFrame

\* One pass of the loop of _receive_loop: a datagram arrives and is handled.
UdpReceive ==
    /\ obs.count < UdpMaxCalls
    /\ rt.rx_task /\ rt.rx_state = "pending" /\ rt.running /\ rt.socket
    /\ \E payload \in UdpDatagrams, t \in now..UdpMaxTime :
         /\ now' = t
         /\ rt' = receive_datagram(rt, payload, t)
         /\ obs' = [obs EXCEPT !.step = "receive", !.count = @ + 1,
                               !.was_running = rt.running, !.outcome = "returned",
                               !.datagram = payload, !.before = rt]
    /\ UdpFrame

\* loop.sock_recvfrom raises: the receive task ends with the exception.
UdpReceiveError ==
    /\ obs.count < UdpMaxCalls
    /\ rt.rx_task /\ rt.rx_state = "pending"
    /\ rt' = [rt EXCEPT !.rx_state = "failed"]
    /\ obs' = [obs EXCEPT !.step = "receive_error", !.count = @ + 1,
                          !.was_running = rt.running, !.outcome = "raised",
                          !.datagram = << >>, !.before = rt]
    /\ UNCHANGED now
    /\ UdpFrame

\* _resubscribe_loop wakes from its sleep: it subscribes again, then tests
\* the loop condition; a send that raises ends the task with the exception.
UdpResubscribe ==
    /\ obs.count < UdpMaxCalls
    /\ rt.resubscribe_state = "pending"
    /\ \E sent_ok \in BOOLEAN :
         /\ rt' = IF ~sent_ok /\ rt.socket /\ rt.xplane_addr
                  THEN [rt EXCEPT !.resubscribe_state = "failed"]
                  ELSE [rt EXCEPT !.sent = subscribe_all(rt, xplane_rref_hz),
                                  !.resubscribe_state =
                                      IF rt.running THEN "pending" ELSE "done"]
         /\ obs' = [obs EXCEPT !.step = "resubscribe", !.count = @ + 1,
                               !.was_running = rt.running,
                               !.outcome = IF rt'.resubscribe_state = "failed"
                                           THEN "raised" ELSE "returned",
                               !.datagram = << >>, !.before = rt]
    /\ UNCHANGED now
    /\ UdpFrame

UdpStop ==
    /\ obs.count < UdpMaxCalls
    /\ rt' = udp_stop(rt).client
    /\ obs' = [obs EXCEPT !.step = "stop", !.count = @ + 1,
                          !.was_running = rt.running,
                          !.outcome = udp_stop(rt).outcome,
                          !.datagram = << >>, !.before = rt]
    /\ UNCHANGED now
    /\ UdpFrame

UdpNext == UdpStart \/ UdpReceive \/ UdpReceiveError \/ UdpResubscribe \/ UdpStop

SpecUdp == UdpInit /\ [][UdpNext]_vars

\* C24: when stop() has been called on a started client, every subscribed
\* index was last sent rate zero, neither child task is left running, the
\* socket is closed and the socket field cleared, and stop() returned; on a
\* client never started stop() returns and changes nothing.
C24_StopReleasesEverything ==
    obs.step = "stop" =>
        /\ obs.was_running =>
             /\ obs.outcome = "returned"
             /\ \A i \in DatarefIndexes : rt.sent[i] = 0
             /\ rt.rx_state \in {"cancelled", "failed", "done"}
             /\ rt.resubscribe_state \in {"cancelled", "failed", "done"}
             /\ ~rt.socket /\ rt.open_sockets = 0
        /\ ~obs.ever_started => obs.outcome = "returned" /\ rt = obs.before

\* What stop() does achieve on every call: the zero-rate requests are sent
\* while the socket is set, the client is marked not running, and a client
\* never started is left as it was.
C24_StopSendsZeroRates ==
    obs.step = "stop" =>
        /\ ~rt.running
        /\ obs.before.socket /\ obs.before.xplane_addr =>
             \A i \in DatarefIndexes : rt.sent[i] = 0
        /\ ~obs.ever_started => obs.outcome = "returned" /\ rt = obs.before

\* C34: while the client runs, after a start that set it up and before the
\* next stop, the receive task and the re-subscribe task are both alive.
C34_LoopsStayAlive ==
    (rt.running /\ rt.rx_task /\ rt.resubscribe_task) =>
        /\ rt.rx_state = "pending"
        /\ rt.resubscribe_state = "pending"

\* While the client runs, a child task ends only by an exception of its
\* socket call; a datagram handled or a round of subscriptions sent leaves
\* both tasks alive, the subscriptions sent again at the configured rate.
C34_LoopsEndOnlyBySocketError ==
    [][(rt.running /\ rt'.running) =>
          /\ rt.rx_state = "pending" /\ rt'.rx_state # "pending"
                => obs'.step = "receive_error" /\ rt'.rx_state = "failed"
          /\ rt.resubscribe_state = "pending" /\ rt'.resubscribe_state # "pending"
                => /\ obs'.step = "resubscribe" /\ obs'.outcome = "raised"
                   /\ rt'.resubscribe_state = "failed"
          /\ obs'.step = "resubscribe" /\ obs'.outcome = "returned"
                => \A i \in DatarefIndexes : rt'.sent[i] = xplane_rref_hz]_vars

\* C36: when start() has returned, the socket is set, every subscription
\* was last sent at the configured rate and both child tasks exist and run.
C36_StartReturnsFullySetUp ==
    (obs.step = "start" /\ obs.outcome = "returned") =>
        /\ rt.running /\ rt.socket
        /\ \A i \in DatarefIndexes : rt.sent[i] = xplane_rref_hz
        /\ rt.rx_task /\ rt.rx_state = "pending"
        /\ rt.resubscribe_task /\ rt.resubscribe_state = "pending"

\* What does hold: a start() that returns on a client that was not marked
\* running has set everything up, also after attempts that raised while
\* resolving or binding.
C36_StartFromStoppedSetsUp ==
    (obs.step = "start" /\ obs.outcome = "returned" /\ ~obs.was_running) =>
        /\ rt.running /\ rt.socket
        /\ \A i \in DatarefIndexes : rt.sent[i] = xplane_rref_hz
        /\ rt.rx_task /\ rt.rx_state = "pending"
        /\ rt.resubscribe_task /\ rt.resubscribe_state = "pending"

\* A start attempt that raised while sending is followed by a start() that
\* returns at once and leaves the client without child tasks.
C36_ReturnsWithoutTasks ==
    /\ obs.step = "start" /\ obs.outcome = "returned"
    /\ obs.before.running /\ ~obs.before.rx_task
    /\ rt.running /\ ~rt.rx_task /\ ~rt.resubscribe_task

\* A datagram that begins with the response prefix and has room for at
\* least one 8-byte record after it.
CarriesRecord(payload) ==
    /\ Len(payload) >= Len(RREF_RESPONSE_PREFIX) + 8
    /\ \A i \in 1..Len(RREF_RESPONSE_PREFIX) : payload[i] = RREF_RESPONSE_PREFIX[i]

\* C25: a received datagram without the response prefix, or without a
\* complete 8-byte record, leaves the value map, latest() and the snapshot
\* buffer as they were, and the receive loop stays ready for the next one.
C25_MalformedDatagramIgnored ==
    (obs.step = "receive" /\ ~CarriesRecord(obs.datagram)) =>
        /\ rt.values = obs.before.values
        /\ rt.latest = obs.before.latest
        /\ rt.snapshots = obs.before.snapshots
        /\ rt.rx_state = "pending" /\ rt.running /\ rt.socket

\* A full record behind a wrong prefix arrives after a snapshot was built.
C25_Witness ==
    /\ obs.step = "receive"
    /\ ~CarriesRecord(obs.datagram)
    /\ Len(obs.datagram) >= Len(RREF_RESPONSE_PREFIX) + 8
    /\ obs.before.latest # None
    /\ rt.latest = obs.before.latest

\* The prefix followed by an incomplete record arrives after a snapshot.
C25_WitnessIncomplete ==
    /\ obs.step = "receive"
    /\ Len(obs.datagram) > Len(RREF_RESPONSE_PREFIX)
    /\ SubSeq(obs.datagram, 1, Len(RREF_RESPONSE_PREFIX)) = RREF_RESPONSE_PREFIX
    /\ ~CarriesRecord(obs.datagram)
    /\ Len(rt.snapshots) = 1

----------------------------------------------------------------------------
(* Specification SpecWire: the two packet functions of xplane_udp.py       *)
(* applied to inputs drawn from bounded sets.  obs holds the last call.    *)

MaxRecords == 2
NameLimit == 400

Int32Min == (0 - 2147483647) - 1

WireFreqs == {0, 1, 10, -1, 2147483647, Int32Min}
WireIndexes == {0, 1, 7, 18, 255, 256, 65536, -2}

\* Dataref names as sequences of ASCII codes: empty, "s", "sim/x", one with
\* an embedded NUL, and the longest name under the limit.
WireNames ==
    { << >>, <<115>>, <<115, 105, 109, 47, 120>>, <<97, 0, 98>>,
      [i \in 1..(NameLimit - 1) |-> 97 + (i % 26)] }

\* Values of response records: 0, 123.5, -4.25, 2^-20, 2^24 - 1, and two
\* that binary32 cannot hold exactly, 2^24 + 1 and -(2^25 + 3).
WireValues ==
    { [m |-> 0, e |-> 0], [m |-> 247, e |-> -1], [m |-> -17, e |-> -2],
      [m |-> 1, e |-> -20], [m |-> 16777215, e |-> 0],
      [m |-> 16777217, e |-> 0], [m |-> -33554435, e |-> 0] }
WireRecordIndexes == {1, 2, -3}

WireRecords == [index : WireRecordIndexes, value : WireValues]

WireSequences == UNION { [1..n -> WireRecords] : n \in 0..MaxRecords }

RECURSIVE pack_records(_)
pack_records(records) ==
    IF records = << >> THEN << >>
    ELSE RrefRecord(Head(records).index, Head(records).value) \o pack_records(Tail(records))

WireObs0 ==
    [step |-> "init", freq |-> 0, index |-> 0, name |-> << >>, packet |-> << >>,
     records |-> << >>, parsed |-> EmptyDict]

WireInit ==
    /\ now = 0
    /\ tracker = TrackerState0
    /\ trk = << >>
    /\ sink = << >>
    /\ calls = << >>
    /\ rt = << >>
    /\ hazard = << >>
    /\ latest = << >>
    /\ journal = << >>
    /\ speech = << >>
    /\ obs = WireObs0

\* build_rref_request_packet(freq_hz, index, dataref)
WireBuild ==
    /\ obs.step = "init"
    /\ \E freq \in WireFreqs, index \in WireIndexes, name \in WireNames :
         obs' = [WireObs0 EXCEPT !.step = "build", !.freq = freq, !.index = index,
                                 !.name = name,
                                 !.packet = build_rref_request_packet(freq, index, name)]
    /\ UNCHANGED <<now, tracker, trk, sink, calls, rt, hazard, latest, journal, speech>>

\* parse_rref_datagram(b"RREF," + packed records)
WireParse ==
    /\ obs.step = "init"
    /\ \E records \in WireSequences :
         obs' = [WireObs0 EXCEPT !.step = "parse", !.records = records,
                                 !.parsed = parse_rref_datagram(
                                     RREF_RESPONSE_PREFIX \o pack_records(records))]
    /\ UNCHANGED <<now, tracker, trk, sink, calls, rt, hazard, latest, journal, speech>>

\* The call returns; the next one starts from fresh arguments.
WireReturn ==
    /\ obs.step # "init"
    /\ obs' = WireObs0
    /\ UNCHANGED <<now, tracker, trk, sink, calls, rt, hazard, latest, journal, speech>>

WireNext == WireBuild \/ WireParse \/ WireReturn

SpecWire == WireInit /\ [][WireNext]_vars

\* The map from each index of the records to the value of its last record.
LastValueMap(records) ==
    [i \in {records[j].index : j \in DOMAIN records} |->
        records[CHOOSE j \in DOMAIN records :
                    /\ records[j].index = i
                    /\ \A k \in DOMAIN records : records[k].index = i => k <= j].value]

\* The built packet unpacks to the header, freq, index and the name padded
\* with NUL bytes to 400.
RequestRecovered ==
    /\ Len(obs.packet) = 413
    /\ unpack_rref_request(obs.packet) =
         [header |-> <<82, 82, 69, 70, 0>>, freq |-> obs.freq, index |-> obs.index,
          raw_dataref |-> [i \in 1..NameLimit |->
                              IF i <= Len(obs.name) THEN obs.name[i] ELSE 0]]

\* The value is a binary32 number: its odd significand has at most 24 bits.
Binary32Exact(x) == BitLength(Abs(x.m)) <= 24

\* C26 as stated: a built request unpacks to its fields, and parsing the
\* prefix followed by any packed records gives the map from each index to
\* its last value.
C26_RoundTrip ==
    /\ obs.step = "build" => RequestRecovered
    /\ obs.step = "parse" => obs.parsed = LastValueMap(obs.records)

\* C26 amended: the same, for record values that binary32 holds exactly.
C26_RoundTripBinary32 ==
    /\ obs.step = "build" => RequestRecovered
    /\ (obs.step = "parse" /\ \A j \in DOMAIN obs.records : Binary32Exact(obs.records[j].value))
          => obs.parsed = LastValueMap(obs.records)

\* Two records of one index with different exact values were parsed.
C26_Witness ==
    /\ obs.step = "parse"
    /\ Len(obs.records) = 2
    /\ obs.records[1].index = obs.records[2].index
    /\ obs.records[1].value # obs.records[2].value
    /\ \A j \in DOMAIN obs.records : Binary32Exact(obs.records[j].value)
    /\ obs.records[2].value.m < 0

\* A request with a negative rate and the longest name was built.
C26_WitnessBuild ==
    /\ obs.step = "build"
    /\ obs.freq < 0
    /\ Len(obs.name) = NameLimit - 1

\* A value outside binary32 comes back as the nearest binary32 value.
C26_ValueRounded ==
    (obs.step = "parse" /\ obs.records = <<[index |-> 1, value |-> [m |-> 16777217, e |-> 0]]>>)
        => obs.parsed[1] = [m |-> 1, e |-> 24]

----------------------------------------------------------------------------
(* Specification SpecDownsample: runtime.py, _downsample_snapshots as      *)
(* _build_shutdown_review calls it.  A snapshot is its timestamp; the      *)
(* session buffer holds strictly increasing timestamps.                    *)

full_flight_max_samples == 1800
DownsampleSpan == 25

\* snapshots[::step]
EveryNth(snapshots, step) ==
    [i \in 1..((Len(snapshots) + step - 1) \div step) |-> snapshots[(i - 1) * step + 1]]

StrideCeil(n, max_samples) == (n + max_samples - 1) \div max_samples
StrideOf(n, max_samples) == Max2(1, n \div max_samples)

\* _downsample_snapshots(snapshots, max_samples)
downsample_snapshots(snapshots, max_samples) ==
    IF max_samples <= 0 \/ Len(snapshots) <= max_samples THEN snapshots
    ELSE LET step == StrideOf(Len(snapshots), max_samples)
             sampled == EveryNth(snapshots, step)
             cut == IF Len(sampled) >= max_samples
                    THEN SubSeq(sampled, 1, max_samples - 1) ELSE sampled
         IN  IF cut[Len(cut)] # snapshots[Len(snapshots)]
             THEN Append(cut, snapshots[Len(snapshots)]) ELSE cut

\* Buffer sizes around the multiples of the sample limit.
DownsampleSizes ==
    {k * full_flight_max_samples + j : k \in 0..2, j \in (0 - DownsampleSpan)..DownsampleSpan}
        \cap 1..(3 * full_flight_max_samples)

SessionBuffer(n) == [i \in 1..n |-> StartEpoch + i]

DownsampleObs0 == [step |-> "init", n |-> 0, sample_count |-> 0]

DownsampleInit ==
    /\ now = 0
    /\ tracker = TrackerState0
    /\ trk = << >>
    /\ sink = << >>
    /\ calls = << >>
    /\ rt = << >>
    /\ hazard = << >>
    /\ latest = << >>
    /\ journal = << >>
    /\ speech = << >>
    /\ obs = DownsampleObs0

\* _build_shutdown_review(snapshots): rt is the sampled list, obs.sample_count
\* the ReviewWindow's sample_count.
BuildShutdownReview ==
    /\ obs.step = "init"
    /\ \E n \in DownsampleSizes :
         /\ rt' = downsample_snapshots(SessionBuffer(n), full_flight_max_samples)
         /\ obs' = [step |-> "review", n |-> n, sample_count |-> Len(rt')]
    /\ UNCHANGED <<now, tracker, trk, sink, calls, hazard, latest, journal, speech>>

\* The review is handed to the team; the next debrief builds its own.
ShutdownReviewBuilt ==
    /\ obs.step = "review"
    /\ rt' = << >>
    /\ obs' = DownsampleObs0
    /\ UNCHANGED <<now, tracker, trk, sink, calls, hazard, latest, journal, speech>>

DownsampleNext == BuildShutdownReview \/ ShutdownReviewBuilt

SpecDownsample == DownsampleInit /\ [][DownsampleNext]_vars

\* Every stride-th snapshot from the first, then the last if not yet taken.
StridedWithLast(snapshots, stride) ==
    LET taken == EveryNth(snapshots, stride)
    IN  IF taken[Len(taken)] = snapshots[Len(snapshots)] THEN taken
        ELSE Append(taken, snapshots[Len(snapshots)])

\* C27 as stated: the sampled list has at most 1800 snapshots, taken with
\* stride ceil(n/1800) from the first snapshot and including the last; a
\* buffer of at most 1800 snapshots is used unchanged.
C27_DownsampleStrideCeil ==
    obs.step = "review" =>
        /\ Len(rt) <= full_flight_max_samples
        /\ obs.sample_count = Len(rt)
        /\ rt = IF obs.n <= full_flight_max_samples THEN SessionBuffer(obs.n)
                ELSE StridedWithLast(SessionBuffer(obs.n),
                                     StrideCeil(obs.n, full_flight_max_samples))

\* What the sampled list does satisfy: at most 1800 snapshots in the
\* original order, the first and the last of the buffer among them, and a
\* buffer of at most 1800 unchanged.
C27_DownsampleBoundedWithEnds ==
    obs.step = "review" =>
        /\ Len(rt) <= full_flight_max_samples
        /\ obs.sample_count = Len(rt)
        /\ rt[1] = StartEpoch + 1
        /\ rt[Len(rt)] = StartEpoch + obs.n
        /\ \A i \in 1..(Len(rt) - 1) : rt[i] < rt[i + 1]
        /\ obs.n <= full_flight_max_samples => rt = SessionBuffer(obs.n)

\* With between 1800 and 3600 snapshots the list is the first 1799
\* snapshots followed by the last one.
C27_SecondHalfDropped ==
    (obs.step = "review" /\ obs.n > full_flight_max_samples
                         /\ obs.n < 2 * full_flight_max_samples) =>
        rt = Append(SubSeq(SessionBuffer(obs.n), 1, full_flight_max_samples - 1),
                    StartEpoch + obs.n)

----------------------------------------------------------------------------
(* Specification SpecCandidate: FlightPhaseTracker._determine_candidate    *)
(* applied to snapshots and tracker states drawn around the thresholds of  *)
(* the decision table, optional fields absent included.                    *)

\* Groundspeeds in tenths of m/s on both sides of 2, 35 and 40 kt.
CandGroundspeeds == {None, Some(10), Some(11), Some(180), Some(181), Some(205), Some(206)}
CandAirspeeds == {None, Some(4), Some(5), Some(39), Some(40), Some(45), Some(46),
                  Some(55), Some(56)}
CandVerticalSpeeds == {None, Some(-401), Some(-400), Some(-301), Some(-300), Some(-151),
                       Some(-150), Some(0), Some(300), Some(301), Some(399), Some(400)}
CandThrottles == {None, Some(19), Some(20)}
CandBrakes == {None, Some(30), Some(31)}
\* Elevations (m) over a field at 100 m on both sides of 250, 2500, 3000 ft.
CandElevations == {None, Some(176), Some(177), Some(862), Some(863), Some(1014), Some(1015)}
CandFieldElevations == {None, Some(100)}

CandSnapshot(on_ground, elevation, gs, ias, vs, throttle, park) ==
    [kind |-> "drawn", timestamp_sec |-> StartEpoch,
     f |-> [on_ground |-> on_ground, elevation_m |-> elevation, groundspeed |-> gs,
            ias |-> ias, vs |-> vs, roll |-> Some(0), throttle |-> throttle,
            parking_brake |-> park, engine_running |-> Some(TRUE),
            engine_rpm |-> Some(2000), stall_warning |-> FALSE]]

CandGroundSnapshots ==
    {CandSnapshot(TRUE, Some(100), gs, ias, Some(0), throttle, park) :
        gs \in CandGroundspeeds, ias \in CandAirspeeds,
        throttle \in CandThrottles, park \in CandBrakes}

CandAirSnapshots ==
    {CandSnapshot(FALSE, elevation, Some(300), ias, vs, Some(80), Some(0)) :
        elevation \in CandElevations, ias \in {None, Some(55), Some(56)},
        vs \in CandVerticalSpeeds}

CandTrackerStates ==
    {[TrackerState0 EXCEPT !.phase = phase, !.phase_started_at = StartEpoch,
                           !.candidate = phase, !.candidate_since = StartEpoch,
                           !.field_elevation_m = field, !.was_airborne = airborne] :
        phase \in {"preflight", "takeoff", "initial_climb", "cruise", "approach", "landing"},
        field \in CandFieldElevations, airborne \in BOOLEAN}

CandInit ==
    /\ now = StartEpoch
    /\ tracker \in CandTrackerStates
    /\ trk = << >>
    /\ sink = << >>
    /\ calls = << >>
    /\ rt = << >>
    /\ hazard = << >>
    /\ latest = << >>
    /\ journal = << >>
    /\ speech = << >>
    /\ \E snap \in (IF tracker.phase \in {"preflight", "cruise"}
                    THEN CandGroundSnapshots ELSE {}) \cup CandAirSnapshots :
         obs = [step |-> "init", snap |-> snap, candidate |-> None]

\* candidate = self._determine_candidate(snapshot)
DetermineCandidate ==
    /\ obs.step = "init"
    /\ obs' = [obs EXCEPT !.step = "determined",
                          !.candidate = Some(determine_candidate(tracker, obs.snap))]
    /\ UNCHANGED <<now, tracker, trk, sink, calls, rt, hazard, latest, journal, speech>>

CandNext == DetermineCandidate

SpecCandidate == CandInit /\ [][CandNext]_vars

\* A comparison of the table on an optional field.  It holds of a present
\* value that satisfies it; of an absent field it does not hold, unless
\* zero_for_absent reads the absent field as zero.
Holds(x, P(_), zero_for_absent) ==
    IF x = None THEN zero_for_absent /\ P(0) ELSE P(x[1])

\* The ordered decision table of the candidate; the first matching row wins.
DecisionTable(s, snap, z) ==
    LET gs == IF snap.f.groundspeed = None THEN None ELSE Some(GsKtE6(snap))
        ias == snap.f.ias
        vs == snap.f.vs
        agl == agl_ft(snap, s.field_elevation_m)
    IN  IF snap.f.on_ground THEN
            IF s.was_airborne THEN
                IF Holds(gs, LAMBDA v : v > KtE6(40), z) \/ Holds(ias, LAMBDA v : v > 45, z)
                THEN "landing" ELSE "taxi_in"
            ELSE IF /\ Holds(gs, LAMBDA v : v < KtE6(2), z)
                    /\ Holds(ias, LAMBDA v : v < 5, z)
                    /\ Holds(snap.f.throttle, LAMBDA v : v < 20, z)
                    /\ Holds(snap.f.parking_brake, LAMBDA v : v > 30, z)
                 THEN "preflight"
            ELSE IF Holds(gs, LAMBDA v : v >= KtE6(35), z) /\ Holds(ias, LAMBDA v : v >= 40, z)
                 THEN "takeoff"
            ELSE "taxi_out"
        ELSE IF agl # None THEN
            IF /\ agl[1] < FtE5(250) /\ Holds(vs, LAMBDA v : v < 0 - 150, z)
               /\ Holds(ias, LAMBDA v : v > 55, z)
            THEN "landing"
            ELSE IF agl[1] <= FtE5(2500) /\ Holds(vs, LAMBDA v : v < 0 - 400, z)
                 THEN "approach"
            ELSE IF Holds(vs, LAMBDA v : v > 300, z) /\ agl[1] < FtE5(3000)
                 THEN "initial_climb"
            ELSE IF Holds(vs, LAMBDA v : v < 0 - 300, z) /\ agl[1] > FtE5(2500)
                 THEN "descent"
            ELSE IF Holds(vs, LAMBDA v : Abs(v) < 400, z) /\ agl[1] >= FtE5(3000)
                 THEN "cruise"
            ELSE IF s.phase \in {"takeoff", "initial_climb"} THEN "initial_climb"
            ELSE IF s.phase \in {"approach", "landing"} THEN "approach"
            ELSE "cruise"
        ELSE IF Holds(vs, LAMBDA v : v > 300, z) THEN "initial_climb"
        ELSE IF Holds(vs, LAMBDA v : v < 0 - 300, z) THEN "descent"
        ELSE "cruise"

\* C28 as stated, a row that reads an absent field not matching: the
\* candidate chosen is the first matching row of the decision table.
C28_CandidateIsFirstMatchingRow ==
    obs.step = "determined" =>
        obs.candidate = Some(DecisionTable(tracker, obs.snap, FALSE))

\* With every absent field read as zero the candidate is the first matching
\* row of the table, for every drawn snapshot and tracker state.
C28_CandidateIsFirstRowAbsentAsZero ==
    obs.step = "determined" =>
        obs.candidate = Some(DecisionTable(tracker, obs.snap, TRUE))

\* With all the fields the table reads present, the two readings agree.
C28_TablesAgreeWhenPresent ==
    (/\ obs.snap.f.groundspeed # None /\ obs.snap.f.ias # None /\ obs.snap.f.vs # None
     /\ obs.snap.f.throttle # None /\ obs.snap.f.parking_brake # None) =>
        DecisionTable(tracker, obs.snap, FALSE) = DecisionTable(tracker, obs.snap, TRUE)

----------------------------------------------------------------------------
(* Specification SpecOrder: the supervisor's loop with reviews falling due *)
(* at every tick of the clock and a run long enough for a flight to    *)
(* end in a detected shutdown, so that a snapshot and a review can be due  *)
(* while the processing of a snapshot is suspended in the debrief.         *)
(* Speech is a dry run and non-urgent speaking is off.                     *)

OrderDuration == 4
OrderReviewTick == 1

OrderInit ==
    /\ now = StartEpoch
    /\ tracker = TrackerState0
    /\ trk = Trk0
    /\ calls = EmptyDict
    /\ hazard = Hazard0
    /\ latest = None
    /\ journal = << >>
    /\ speech = << >>
    /\ obs = Obs0
    /\ rt = Runtime0(FALSE, OrderReviewTick, OrderDuration)
    /\ sink = Sink0(TRUE)

OrderNext ==
    \/ TelemetryPublish
    \/ Tick
    \/ LoopIteration
    \/ ReviewReturn
    \/ DebriefReturn
    \/ RunEnd

SpecOrder == OrderInit /\ [][OrderNext]_vars

\* _process_snapshot is suspended in the debrief its shutdown check started.
SnapshotInProcess ==
    rt.pc = "debrief_wait" /\ rt.debrief_reason = "engine_shutdown_detected"

\* The stage of _process_snapshot that journals the event; 0 for the events
\* of other callers.
ProcessingStage(event) ==
    CASE event = "flight_cycle_started" -> 1
      [] event = "phase_change" -> 2
      [] event = "hazard_alert" -> 3
      [] event = "engine_shutdown_detected" -> 4
      [] OTHER -> 0

\* C29: the events of one processed snapshot are journalled in the order
\* new-cycle check, phase update, alert dispatch, shutdown check; a snapshot
\* whose shutdown check started the debrief stays in process until the
\* debrief returns; while a snapshot is in process or a review is running no
\* snapshot is read; and a review starts only from the top of the loop with
\* the iteration's snapshot fully processed, or when the debrief that
\* suspended the processing has returned.
C29_ProcessingCompletesBeforeNextReadAndReview ==
    /\ [](\A i, j \in DOMAIN journal :
            (i < j /\ ProcessingStage(journal[i].event) > 0
                   /\ ProcessingStage(journal[j].event) > 0)
                => ProcessingStage(journal[i].event) <= ProcessingStage(journal[j].event))
    /\ [](HasEvent("engine_shutdown_detected") => SnapshotInProcess)
    /\ [][(SnapshotInProcess \/ rt.pc = "review_wait")
             => /\ rt'.last_snapshot_ts = rt.last_snapshot_ts
                /\ rt'.session_snapshots = rt.session_snapshots
                /\ tracker' = tracker]_vars
    /\ [][(rt'.pc = "review_wait" /\ rt.pc # "review_wait")
             => \/ rt.pc = "top" /\ ~SnapshotInProcess'
                \/ /\ SnapshotInProcess
                   /\ HasEvent("shutdown_debrief")' \/ HasEvent("shutdown_debrief_failed")']_vars

\* A snapshot is in process, the next snapshot is waiting in the source and
\* a review is due.
C29_Witness ==
    /\ SnapshotInProcess
    /\ SnapshotDue
    /\ ReviewDue

\* A review runs while a newer snapshot waits in the source.
C29_WitnessReview ==
    /\ rt.pc = "review_wait"
    /\ SnapshotDue

\* A review was started by the step in which the debrief returned.
C29_WitnessReviewAfterDebrief ==
    /\ rt.pc = "review_wait"
    /\ HasEvent("shutdown_debrief")

\* The step processed a snapshot.
SnapshotProcessed == obs'.step = "ProcessSnapshot" /\ rt' # rt

StrictlyIncreasing(q) == \A i \in 1..(Len(q) - 1) : q[i] < q[i + 1]

\* C30: a snapshot is processed only when its timestamp is above that of
\* the last processed one, which it then becomes; the last processed
\* timestamp changes in no other way; and the session buffer holds strictly
\* increasing timestamps ending in the last processed one.
C30_ProcessedTimestampsIncrease ==
    /\ [](StrictlyIncreasing(rt.session_snapshots))
    /\ [](rt.session_snapshots # << >> =>
            rt.session_snapshots[Len(rt.session_snapshots)] = rt.last_snapshot_ts)
    /\ [][SnapshotProcessed =>
            /\ latest # None
            /\ latest[1].timestamp_sec > rt.last_snapshot_ts
            /\ rt'.last_snapshot_ts = latest[1].timestamp_sec]_vars
    /\ [][(rt'.last_snapshot_ts # rt.last_snapshot_ts
             \/ rt'.session_snapshots # rt.session_snapshots) => SnapshotProcessed]_vars

\* An iteration found the snapshot it had already processed in the source
\* again and went on to the review without processing it.
C30_Witness ==
    /\ obs.step = "ReviewCheck"
    /\ latest # None
    /\ latest[1].timestamp_sec = rt.last_snapshot_ts
    /\ Len(rt.session_snapshots) >= 2

\* Three snapshots have been processed.
C30_WitnessThree == Len(rt.session_snapshots) = 3

\* Across flight cycles too the session buffer is strictly increasing and
\* ends in the last processed timestamp.
C30_BufferIncreasesAcrossCycles ==
    /\ StrictlyIncreasing(rt.session_snapshots)
    /\ rt.session_snapshots # << >> =>
         rt.session_snapshots[Len(rt.session_snapshots)] = rt.last_snapshot_ts

----------------------------------------------------------------------------
(* The priority fallback of the non-urgent review, under SpecRuntime.      *)

\* The step is the return of a review's run_review with a decision.
ReviewDecidedStep == rt.pc = "review_wait" /\ HasEvent("team_decision")'

\* The decision the step journalled.
DecisionOfStep == journal'[1].decision

\* The calls of the speech sink the step made on a channel.
CallsOn(channel) == {i \in DOMAIN speech' : speech'[i].channel = channel}

\* What C31 says of a review step that meets the stated precondition.
FallbackLaw ==
    LET d == DecisionOfStep
        key == "priority_review_" \o rt.phase_state.phase
    IN  /\ d.priority =>
              /\ Len(speech') >= 1 /\ speech'[1].channel = "nonurgent"
              /\ speech'[1].result \in {"gated", "failure"} =>
                    /\ Len(speech') = 2
                    /\ speech'[2].channel = "urgent" /\ speech'[2].key = key
                    /\ speech'[2].result \in {"success", "dry_run"} =>
                          /\ sink'.last_urgent_epoch = now
                          /\ recent_urgent(sink', now, nonurgent_suppress_after_urgent_sec)
        /\ ~d.priority => CallsOn("urgent") = {}
        /\ (~d.priority /\ ~d.speak_now) => speech' = << >>

\* C31 as stated: in a review with no recent urgent utterance and speakable
\* coach text, a priority review is spoken, falls back to speak_urgent under
\* priority_review_<phase> when speak_nonurgent returns false, a successful
\* fallback counting as an urgent utterance; a non-priority review never
\* calls speak_urgent, and none without speak_now makes a speech call.
C31_PriorityFallback ==
    [][(/\ ReviewDecidedStep
        /\ DecisionOfStep.coach = "ok"
        /\ ~recent_urgent(sink, now, nonurgent_suppress_after_urgent_sec))
           => FallbackLaw]_vars

\* C31 amended: the same, for a review made while non-urgent speaking is
\* enabled and no shutdown debrief has been emitted in the flight cycle.
C31_PriorityFallbackWhenSpeakingAllowed ==
    [][(/\ ReviewDecidedStep
        /\ rt.nonurgent_speak_enabled /\ ~rt.shutdown_debrief_emitted
        /\ DecisionOfStep.coach = "ok"
        /\ ~recent_urgent(sink, now, nonurgent_suppress_after_urgent_sec))
           => FallbackLaw]_vars

\* A priority review without speak_now fell back to the urgent channel and
\* the fallback went through.
C31_Witness ==
    /\ obs.step = "ReviewReturn"
    /\ HasEvent("team_decision") /\ journal[1].decision.priority
    /\ ~journal[1].decision.speak_now /\ journal[1].decision.coach = "ok"
    /\ Len(speech) = 2
    /\ speech[1].channel = "nonurgent" /\ speech[1].result \in {"gated", "failure"}
    /\ speech[2].channel = "urgent" /\ speech[2].result = "success"
    /\ sink.last_urgent_epoch = now

\* A non-priority review was refused by speak_nonurgent and nothing else
\* was called.
C31_WitnessNoFallback ==
    /\ obs.step = "ReviewReturn"
    /\ HasEvent("team_decision") /\ ~journal[1].decision.priority
    /\ Len(speech) = 1
    /\ speech[1].channel = "nonurgent" /\ speech[1].result \in {"gated", "failure"}

\* A priority review with low-value text is spoken as well.
C31_PriorityLowValueSpoken ==
    [][(/\ ReviewDecidedStep
        /\ rt.nonurgent_speak_enabled /\ ~rt.shutdown_debrief_emitted
        /\ DecisionOfStep.coach = "low_value" /\ DecisionOfStep.priority
        /\ ~recent_urgent(sink, now, nonurgent_suppress_after_urgent_sec))
           => Len(speech') >= 1 /\ speech'[1].channel = "nonurgent"]_vars

----------------------------------------------------------------------------
(* rules.py: RuleEngine._evaluate_rules, and Specification SpecFindings:   *)
(* the rule engine with its findings, fed samples around a climb-out and a *)
(* touchdown.  A finding is its rule id and severity.  The rules that keep *)
(* state of their own apart from the climb-out timer (stall recovery,      *)
(* level-segment wander, manoeuvre quality) are not followed.              *)

CLIMB_BAND_SUSTAIN_SEC == 8

FindingSampleOf(kind) ==
    LET climb == [on_ground |-> FALSE, agl_ft |-> Some(1000), groundspeed_kt |-> Some(700),
                  indicated_airspeed_kt |-> Some(52), vertical_speed_fpm |-> Some(500),
                  bank_deg |-> Some(0), flaps_ratio |-> Some(0),
                  engine_running |-> Some(<<1>>)]
    IN  CASE kind = "climb_slow" -> climb
          [] kind = "climb_fast" -> [climb EXCEPT !.indicated_airspeed_kt = Some(91)]
          [] kind = "climb_at_60" -> [climb EXCEPT !.indicated_airspeed_kt = Some(60)]
          [] kind = "climb_no_ias" -> [climb EXCEPT !.indicated_airspeed_kt = None]
          [] kind = "climb_high" -> [climb EXCEPT !.agl_ft = Some(2000)]
          [] kind = "level_slow" -> [climb EXCEPT !.vertical_speed_fpm = Some(0)]
          [] kind = "sink_hard" -> [climb EXCEPT !.agl_ft = Some(50),
                                                 !.indicated_airspeed_kt = Some(65),
                                                 !.vertical_speed_fpm = Some(-850)]
          [] kind = "sink_at_700" -> [climb EXCEPT !.agl_ft = Some(50),
                                                   !.indicated_airspeed_kt = Some(65),
                                                   !.vertical_speed_fpm = Some(-700)]
          [] kind = "sink_unknown" -> [climb EXCEPT !.agl_ft = Some(50),
                                                    !.indicated_airspeed_kt = Some(65),
                                                    !.vertical_speed_fpm = None]
          [] kind = "rolling" -> [climb EXCEPT !.on_ground = TRUE, !.agl_ft = Some(0),
                                               !.groundspeed_kt = Some(450),
                                               !.indicated_airspeed_kt = Some(45),
                                               !.vertical_speed_fpm = Some(-900)]

FindingSample(kind, t) ==
    [kind |-> kind, timestamp_epoch |-> t, f |-> FindingSampleOf(kind)]

\* RuleEngineState with the fields _evaluate_rules and update() keep for the
\* touchdown and the climb-out band.
RuleFindingState0 ==
    [phase |-> "pre_flight", had_airborne |-> FALSE, shutdown_confirmed |-> FALSE,
     previous_on_ground |-> None, previous_vertical_speed_fpm |-> None,
     climb_out_violation_since |-> None,
     steep_turn_candidate_since |-> None, slow_flight_candidate_since |-> None,
     shutdown_candidate_since |-> None]

Finding(rule_id, severity) == [rule_id |-> rule_id, severity |-> severity]

\* touchdown = self._state.previous_on_ground is False and sample.on_ground
TouchdownOnGround(previous_on_ground, on_ground) == on_ground
Touchdown(previous_on_ground, on_ground) ==
    previous_on_ground = Some(FALSE) /\ on_ground

\* (t - self._state.climb_out_violation_since) >= CLIMB_BAND_SUSTAIN_SEC
ClimbBandSustainedAtOnce(elapsed) == TRUE
ClimbBandSustained(elapsed) == elapsed >= CLIMB_BAND_SUSTAIN_SEC

\* _evaluate_rules: the findings of the sample and the state it leaves.
evaluate_rules(st, sample) ==
    LET f == sample.f
        t == sample.timestamp_epoch
        ias == f.indicated_airspeed_kt
        agl == f.agl_ft
        vs == f.vertical_speed_fpm
        bank == Abs(Or0(f.bank_deg))
        prev_vs == st.previous_vertical_speed_fpm
        sink_rate == /\ agl # None /\ vs # None /\ ~f.on_ground
                     /\ agl[1] < 500 /\ vs[1] < 0 - 1200
        excessive_bank == agl # None /\ ~f.on_ground /\ agl[1] < 1000 /\ bank > 45
        hard == /\ Touchdown(st.previous_on_ground, f.on_ground)
                /\ prev_vs # None /\ prev_vs[1] < 0 - 700
        taxi_fast == /\ st.phase \in {"taxi_out", "taxi_in"}
                     /\ f.groundspeed_kt # None /\ f.groundspeed_kt[1] > 200
        climb_out_violation ==
            /\ st.phase = "climb"
            /\ agl # None /\ agl[1] < 2000
            /\ ias # None /\ (ias[1] < 60 \/ ias[1] > 90)
        climb_out == /\ climb_out_violation
                     /\ st.climb_out_violation_since # None
                     /\ ClimbBandSustained(t - st.climb_out_violation_since[1])
        unstable == /\ st.phase = "approach"
                    /\ agl # None /\ agl[1] < 500
                    /\ \/ ias # None /\ (ias[1] < 55 \/ ias[1] > 95)
                       \/ vs # None /\ vs[1] < 0 - 1000
    IN  [st |-> [st EXCEPT !.climb_out_violation_since =
                     IF ~climb_out_violation THEN None
                     ELSE IF @ = None THEN Some(t) ELSE @],
         findings |->
             (IF sink_rate THEN {Finding("low_agl_sink_rate", "P0")} ELSE {})
             \cup (IF excessive_bank THEN {Finding("low_agl_excessive_bank", "P0")} ELSE {})
             \cup (IF hard THEN {Finding("hard_landing", "P0")} ELSE {})
             \cup (IF taxi_fast THEN {Finding("taxi_speed_high", "P1")} ELSE {})
             \cup (IF climb_out
                   THEN {Finding("climb_out_airspeed_out_of_band", "P1")} ELSE {})
             \cup (IF unstable THEN {Finding("unstable_approach", "P1")} ELSE {})]

\* RuleEngine.update with its findings.
rule_engine_findings(st, sample) ==
    LET ev == evaluate_rules(
                  detect_phase(update_maneuver_trackers(st, sample), sample), sample)
        st1 == update_shutdown_state(ev.st, sample)
    IN  [st |-> [st1 EXCEPT
                   !.phase = IF st1.shutdown_confirmed THEN "shutdown" ELSE @,
                   !.previous_on_ground = Some(sample.f.on_ground),
                   !.previous_vertical_speed_fpm = sample.f.vertical_speed_fpm],
         findings |-> ev.findings]

FindingKinds ==
    {"climb_slow", "climb_fast", "climb_at_60", "climb_no_ias", "climb_high", "level_slow",
     "sink_hard", "sink_at_700", "sink_unknown", "rolling"}
FindingSteps == {0, 3, 5}
FindingsMaxTime == 11

\* obs.previous: the sample before the last one; obs.violating_since: the
\* timestamp of the first sample of the current run of samples with phase
\* CLIMB, AGL known and below 2000 ft and IAS known and outside [60, 90].
FindingsObs0 ==
    [step |-> "init", findings |-> {}, previous |-> None, violating_since |-> None]

ClimbOutCondition(phase, sample) ==
    /\ phase = "climb"
    /\ sample.f.agl_ft # None /\ sample.f.agl_ft[1] < 2000
    /\ sample.f.indicated_airspeed_kt # None
    /\ ~(60 <= sample.f.indicated_airspeed_kt[1] /\ sample.f.indicated_airspeed_kt[1] <= 90)

FindingsInit ==
    /\ now = 0
    /\ tracker = TrackerState0
    /\ trk = Trk0
    /\ sink = Sink0(FALSE)
    /\ calls = << >>
    /\ hazard = Hazard0
    /\ latest = None
    /\ journal = << >>
    /\ speech = << >>
    /\ rt = RuleFindingState0
    /\ obs = FindingsObs0

FindingsUpdate ==
    \E kind \in FindingKinds, dt \in FindingSteps :
        /\ now + dt <= FindingsMaxTime
        /\ LET sample == FindingSample(kind, now + dt)
               r == rule_engine_findings(rt, sample)
           IN  /\ rt' = r.st
               /\ latest' = Some(sample)
               /\ obs' = [step |-> "update", findings |-> r.findings,
                          previous |-> latest,
                          violating_since |->
                              IF ~ClimbOutCondition(r.st.phase, sample) THEN None
                              ELSE IF obs.violating_since = None THEN Some(now + dt)
                              ELSE obs.violating_since]
        /\ now' = now + dt
        /\ UNCHANGED <<tracker, trk, sink, calls, hazard, journal, speech>>

FindingsNext == FindingsUpdate

SpecFindings == FindingsInit /\ [][FindingsNext]_vars

HasFinding(rule_id) == \E x \in obs.findings : x.rule_id = rule_id

\* C32: hard_landing, with severity P0, is among the findings of a sample
\* exactly when the sample is on the ground, the sample before it was off
\* the ground and that sample's vertical speed was known and below -700;
\* never on the first sample, nor when on_ground did not change.
C32_HardLandingExactlyOnTouchdown ==
    obs.step = "update" =>
        /\ HasFinding("hard_landing") <=>
              /\ latest[1].f.on_ground
              /\ obs.previous # None
              /\ ~obs.previous[1].f.on_ground
              /\ obs.previous[1].f.vertical_speed_fpm # None
              /\ obs.previous[1].f.vertical_speed_fpm[1] < 0 - 700
        /\ \A x \in obs.findings : x.rule_id = "hard_landing" => x.severity = "P0"

\* A touchdown from -850 fpm gave the finding.
C32_Witness ==
    /\ obs.step = "update"
    /\ HasFinding("hard_landing")
    /\ obs.previous # None /\ obs.previous[1].kind = "sink_hard"
    /\ latest[1].f.on_ground

\* Touchdowns from exactly -700 fpm, from an unknown vertical speed, and a
\* sample on the ground after one on the ground at -900 fpm gave none.
C32_WitnessAt700 ==
    /\ obs.step = "update" /\ ~HasFinding("hard_landing")
    /\ obs.previous # None /\ obs.previous[1].kind = "sink_at_700"
    /\ latest[1].f.on_ground
C32_WitnessUnknown ==
    /\ obs.step = "update" /\ ~HasFinding("hard_landing")
    /\ obs.previous # None /\ obs.previous[1].kind = "sink_unknown"
    /\ latest[1].f.on_ground
C32_WitnessStillOnGround ==
    /\ obs.step = "update" /\ ~HasFinding("hard_landing")
    /\ obs.previous # None /\ obs.previous[1].kind = "rolling"
    /\ latest[1].f.on_ground

\* C33: climb_out_airspeed_out_of_band, with severity P1, is among the
\* findings of a sample exactly when the climb-out condition has held on
\* every sample of a run that began at least 8 s before the sample.
C33_ClimbOutBandAfterSustain ==
    obs.step = "update" =>
        /\ HasFinding("climb_out_airspeed_out_of_band") <=>
              /\ obs.violating_since # None
              /\ now - obs.violating_since[1] >= CLIMB_BAND_SUSTAIN_SEC
        /\ \A x \in obs.findings :
              x.rule_id = "climb_out_airspeed_out_of_band" => x.severity = "P1"

\* The finding came after a run of at least 8 s of violating samples.
C33_Witness ==
    /\ obs.step = "update"
    /\ HasFinding("climb_out_airspeed_out_of_band")
    /\ obs.violating_since # None /\ now - obs.violating_since[1] >= 8

\* A violating sample 8 s or more after an earlier violating one gave no
\* finding, a sample within the band having come between them.
C33_WitnessReset ==
    /\ obs.step = "update"
    /\ ~HasFinding("climb_out_airspeed_out_of_band")
    /\ obs.violating_since # None /\ obs.violating_since[1] >= 8
    /\ obs.previous # None /\ obs.previous[1].kind \in {"climb_slow", "climb_fast"}

----------------------------------------------------------------------------
(* Specification SpecBoot: CfiRuntime.run() from its first statement to    *)
(* the loop, and its finally clause.  The two _start_with_retry calls are  *)
(* the actions of SpecStart; after them come the expert team's start, the  *)
(* session bootstrap and the end of run().  rt.started holds the           *)
(* components whose start() returned, rt.stopped those whose stop() was    *)
(* called, rt.run_started is the local flag `started` of run().  A text is *)
(* a sequence of characters.                                               *)

TeamLabel == "expert team"

\* str.strip()
RECURSIVE lstrip(_)
lstrip(text) == IF text # << >> /\ Head(text) = " " THEN lstrip(Tail(text)) ELSE text
RECURSIVE rstrip(_)
rstrip(text) ==
    IF text # << >> /\ text[Len(text)] = " "
    THEN rstrip(SubSeq(text, 1, Len(text) - 1)) ELSE text
strip(text) == rstrip(lstrip(text))

\* The SessionProfile built in the except clause of _bootstrap_session_profile;
\* hazard_profile is the dataclass default, HazardProfile().
FallbackSessionProfile ==
    [aircraft_icao |-> "C172", aircraft_category |-> "single_engine_piston",
     confidence |-> 0, welcome_message |-> <<"W", "e", "l", "c", "o", "m", "e", ".">>,
     hazard_profile |-> DefaultProfile]

\* The profiles bootstrap_session returns.
TeamSessionProfiles ==
    { [aircraft_icao |-> "B350", aircraft_category |-> "twin_turboprop",
       confidence |-> 1, welcome_message |-> <<" ", "H", "i", ".", " ">>,
       hazard_profile |-> TurbopropProfile],
      [aircraft_icao |-> "B350", aircraft_category |-> "twin_turboprop",
       confidence |-> 1, welcome_message |-> <<" ", " ">>,
       hazard_profile |-> TurbopropProfile],
      [aircraft_icao |-> "A320", aircraft_category |-> "jet",
       confidence |-> 1, welcome_message |-> << >>,
       hazard_profile |-> JetTestProfile] }

\* try: await self._team.bootstrap_session(snapshots) / except Exception
session_profile_unguarded(result) ==
    IF result.raised THEN None ELSE result.value
session_profile_of(result) ==
    IF result.raised THEN Some(FallbackSessionProfile) ELSE result.value

\* How bootstrap_session ends: it returns a profile or raises.
BootstrapResults ==
    {[raised |-> FALSE, value |-> Some(p)] : p \in TeamSessionProfiles}
    \cup {[raised |-> TRUE, value |-> None]}

\* The channel on which _bootstrap_session_profile speaks the welcome.
welcome_channel_urgent == "urgent"
welcome_channel == "nonurgent"

BootObs0 ==
    [step |-> "init", ok |-> FALSE,
     starts |-> [l \in {StartLabels[1], StartLabels[2]} |-> 0],
     bootstrap |-> "none", hazard_before |-> Hazard0]

BootInit ==
    /\ now = StartEpoch
    /\ tracker = TrackerState0
    /\ trk = Trk0
    /\ \E dry \in BOOLEAN : sink = Sink0(dry)
    /\ calls = << >>
    /\ hazard = Hazard0
    /\ latest = None
    /\ journal = << >>
    /\ speech = << >>
    /\ \E n \in 1..2, enabled \in BOOLEAN :
         rt = [pc |-> "call", component |-> 1, attempt |-> 0, max_attempts |-> n,
               started |-> {}, stopped |-> {}, run_started |-> FALSE,
               session_profile |-> None, nonurgent_speak_enabled |-> enabled]
    /\ obs = BootObs0

\* await self._team.start()
TeamStart ==
    /\ rt.pc = "started"
    /\ \E ok \in BOOLEAN :
         /\ rt' = IF ok THEN [rt EXCEPT !.pc = "bootstrap", !.started = @ \cup {TeamLabel}]
                  ELSE [rt EXCEPT !.pc = "error"]
         /\ obs' = [obs EXCEPT !.step = "team_start", !.ok = ok]
    /\ journal' = << >>
    /\ speech' = << >>
    /\ UNCHANGED <<now, tracker, trk, sink, calls, hazard, latest>>

\* _bootstrap_session_profile, then _start_hazard_phrase_refresh_loop and
\* started = True.  The session store and the runtime log do not fail.
BootstrapSessionProfile ==
    /\ rt.pc = "bootstrap"
    /\ \E result \in BootstrapResults,
          outcome \in {"success", "failure", "error"} :
         LET profile == session_profile_of(result)
             welcome == IF profile = None THEN << >> ELSE strip(profile[1].welcome_message)
             offered == rt.nonurgent_speak_enabled /\ welcome # << >>
             n == IF welcome_channel = "nonurgent"
                  THEN speak_nonurgent(sink, now, outcome)
                  ELSE speak_urgent(sink, "welcome", now, outcome)
             raised == profile = None \/ (offered /\ n.raised)
         IN  /\ rt' = [rt EXCEPT !.session_profile = profile,
                                 !.pc = IF raised THEN "error" ELSE "running",
                                 !.run_started = ~raised]
             /\ hazard' = IF profile = None THEN hazard
                          ELSE set_hazard_profile(hazard, profile[1].hazard_profile)
             /\ sink' = IF offered THEN n.s ELSE sink
             /\ speech' = IF offered THEN <<Call(welcome_channel, "", now, n)>> ELSE << >>
             /\ journal' =
                  (IF profile = None THEN << >>
                   ELSE <<[event |-> "session_profile_initialized"]>>)
                  \o (IF offered /\ ~n.raised
                      THEN <<[event |-> "startup_welcome", spoken |-> n.ok]>> ELSE << >>)
             /\ obs' = [obs EXCEPT !.step = "bootstrap",
                                   !.ok = ~raised,
                                   !.bootstrap = IF result.raised THEN "raised"
                                                 ELSE "returned",
                                   !.hazard_before = hazard]
    /\ UNCHANGED <<now, tracker, trk, calls, latest>>

\* The finally clause of run() reached by an exception of start(): started
\* is still False, nothing is stopped.
RunFailed ==
    /\ rt.pc = "error"
    /\ rt' = [rt EXCEPT !.pc = "ended",
                        !.stopped = IF rt.run_started
                                    THEN {TeamLabel, StartLabels[1], StartLabels[2]}
                                    ELSE @]
    /\ obs' = [obs EXCEPT !.step = "run_failed"]
    /\ journal' = << >>
    /\ speech' = << >>
    /\ UNCHANGED <<now, tracker, trk, sink, calls, hazard, latest>>

\* The loop of run() ends; the finally clause runs the debrief and stop(),
\* which stops the team, the telemetry source and the speech sink.
RunFinished ==
    /\ rt.pc = "running"
    /\ now' = now + 1
    /\ rt' = [rt EXCEPT !.pc = "ended",
                        !.stopped = IF rt.run_started
                                    THEN {TeamLabel, StartLabels[1], StartLabels[2]}
                                    ELSE @]
    /\ obs' = [obs EXCEPT !.step = "run_finished"]
    /\ journal' = << >>
    /\ speech' = << >>
    /\ UNCHANGED <<tracker, trk, sink, calls, hazard, latest>>

BootNext ==
    \/ StartAttempt
    \/ StartSleep
    \/ TeamStart
    \/ BootstrapSessionProfile
    \/ RunFailed
    \/ RunFinished

SpecBoot == BootInit /\ [][BootNext]_vars

\* C35: the session bootstrap leaves a session profile set and installed
\* in the hazard monitor; when bootstrap_session raised it is the default
\* profile (C172, single_engine_piston, the baseline hazard profile) and
\* the bootstrap's failure does not fail the startup; the welcome message
\* is offered to the non-urgent channel only.
C35_BootstrapAlwaysInstallsProfile ==
    obs.step = "bootstrap" =>
        /\ rt.session_profile # None
        /\ hazard = set_hazard_profile(obs.hazard_before,
                                       rt.session_profile[1].hazard_profile)
        /\ obs.bootstrap = "raised" =>
             /\ rt.session_profile[1].aircraft_icao = "C172"
             /\ rt.session_profile[1].aircraft_category = "single_engine_piston"
             /\ hazard.thresholds = DefaultThresholds
             /\ hazard.enabled_rules = DefaultRules
             /\ (\A i \in DOMAIN speech : speech[i].result # "error") =>
                    rt.pc = "running" /\ rt.run_started
        /\ \A i \in DOMAIN speech : speech[i].channel = "nonurgent"
        /\ Len(speech) =
             IF rt.nonurgent_speak_enabled
                /\ strip(rt.session_profile[1].welcome_message) # << >>
             THEN 1 ELSE 0

\* bootstrap_session raised; the default profile is in place, its welcome
\* was spoken on the non-urgent channel and run() has entered its loop.
C35_Witness ==
    /\ obs.step = "bootstrap" /\ obs.bootstrap = "raised"
    /\ rt.session_profile = Some(FallbackSessionProfile)
    /\ hazard.thresholds = DefaultThresholds
    /\ Len(speech) = 1 /\ speech[1].channel = "nonurgent" /\ speech[1].result = "success"
    /\ rt.pc = "running"

\* The team's profile replaced the monitor's thresholds; its welcome of
\* blanks only was offered to no channel.
C35_WitnessTeamProfile ==
    /\ obs.step = "bootstrap" /\ obs.bootstrap = "returned"
    /\ hazard.thresholds = TurbopropProfile.thresholds
    /\ rt.nonurgent_speak_enabled
    /\ rt.session_profile[1].welcome_message = <<" ", " ">>
    /\ speech = << >>

\* C37: when run() has ended after telemetry.start() had succeeded, the
\* telemetry source's stop() has been called.
C37_TelemetryStoppedWhenStartupFails ==
    (rt.pc = "ended" /\ StartLabels[1] \in rt.started) => StartLabels[1] \in rt.stopped

\* run() ended in a failed startup with the telemetry source started and
\* never stopped.
C37_LeftRunning ==
    /\ rt.pc = "ended" /\ ~rt.run_started
    /\ StartLabels[1] \in rt.started
    /\ rt.stopped = {}

\* What does hold: a run() that ends after start() returned has called
\* stop() on every component, and a run() that ends in a failed startup
\* has called none.
C37_StoppedOnlyAfterFullStart ==
    rt.pc = "ended" =>
        IF rt.run_started
        THEN rt.stopped = {TeamLabel, StartLabels[1], StartLabels[2]}
        ELSE rt.stopped = {}

----------------------------------------------------------------------------
(* Specification SpecAfterDebrief: the supervisor with non-urgent speaking *)
(* enabled and reviews every AfterReviewTick seconds, over a flight that   *)
(* ends with the                                                           *)
(* engine stopped; after the shutdown debrief the aircraft may still coast *)
(* on the ground with the engine stopped, fast enough for the taxi-speed   *)
(* alert, which is not new flight activity.                                *)

AfterDuration == 6
AfterReviewTick == 2
AfterKinds == {"climb", "parked", "coast"}

AfterInit ==
    /\ now = StartEpoch
    /\ tracker = TrackerState0
    /\ trk = Trk0
    /\ calls = EmptyDict
    /\ hazard = Hazard0
    /\ latest = None
    /\ journal = << >>
    /\ speech = << >>
    /\ obs = Obs0
    /\ rt = Runtime0(TRUE, AfterReviewTick, AfterDuration)
    /\ sink = Sink0(FALSE)

AfterTelemetryPublish ==
    /\ InLoop
    /\ IF latest = None THEN TRUE ELSE latest[1].timestamp_sec < now
    /\ \E kind \in AfterKinds : latest' = Some(Stamp(kind, now))
    /\ journal' = << >>
    /\ speech' = << >>
    /\ obs' = [obs EXCEPT !.step = "TelemetryPublish"]
    /\ UNCHANGED <<now, tracker, trk, sink, calls, rt, hazard>>

AfterNext ==
    \/ AfterTelemetryPublish
    \/ FlightTick
    \/ LoopIteration
    \/ ReviewReturn
    \/ DebriefReturn
    \/ RunEnd

SpecAfterDebrief == AfterInit /\ [][AfterNext]_vars

\* C39: while the cycle's shutdown debrief has been emitted, a review
\* journals its team_decision and makes no call of the speech sink, neither
\* speak_nonurgent nor the priority fallback, and a snapshot processed
\* without starting a new flight cycle has every alert the monitor returned
\* for it passed to speak_urgent.
C39_SilentReviewsAfterDebrief ==
    [][/\ (rt.pc = "review_wait" /\ rt'.pc # "review_wait"
           /\ rt.shutdown_debrief_emitted) =>
            /\ speech' = << >>
            /\ rt'.exc # "run_review" =>
                   /\ HasEvent("team_decision")'
                   /\ ~HasEvent("nonurgent_speech")'
            /\ rt'.shutdown_debrief_emitted
       /\ (ProcessStep /\ rt.shutdown_debrief_emitted /\ rt'.flight_index = rt.flight_index) =>
            /\ UrgentKeys(speech') = AlertsOfStep
            /\ rt'.shutdown_debrief_emitted]_vars

\* After the debrief a review whose decision asked to speak useful coaching
\* at once was journalled and nothing was spoken, no urgent utterance being
\* recent.
C39_Witness ==
    /\ obs.step = "ReviewReturn"
    /\ rt.shutdown_debrief_emitted
    /\ HasEvent("team_decision")
    /\ journal[1].decision = [speak_now |-> TRUE, priority |-> TRUE, coach |-> "ok"]
    /\ ~recent_urgent(sink, now, nonurgent_suppress_after_urgent_sec)
    /\ speech = << >>

\* After the debrief the aircraft coasted at 33 kt with the engine stopped:
\* the taxi-speed alert was passed to speak_urgent and no new cycle began.
C39_WitnessAlert ==
    /\ obs.step = "ProcessSnapshot"
    /\ rt.shutdown_debrief_emitted
    /\ rt.flight_index = 1
    /\ ~HasEvent("shutdown_debrief")
    /\ Len(speech) = 1
    /\ speech[1].channel = "urgent" /\ speech[1].key = "excessive_taxi_speed"

\* In the second flight cycle a review spoke again.
C39_WitnessNextCycle ==
    /\ obs.step = "ReviewReturn"
    /\ rt.flight_index = 2
    /\ ~rt.shutdown_debrief_emitted
    /\ Len(speech) = 1 /\ speech[1].channel = "nonurgent" /\ speech[1].result = "success"

====
